---- MODULE Spec2Model ----
(***************************************************************************)
(* Task orchestration of litesoph: job-script assembly                     *)
(* (litesoph/common/task.py), the NWChem task                              *)
(* (litesoph/engines/nwchem/nwchem_task.py) and the job-submission         *)
(* handlers of the GUI (litesoph/gui/gui.py).                              *)
(*                                                                         *)
(* Text.  A Python str is a sequence of atoms.  An atom is a TLA+ string   *)
(* that stands for a run of characters without a newline (a word, one      *)
(* blank, one punctuation mark); the atom NL is the newline character.     *)
(* The empty str is << >>.  Python's None is the value None below, whose   *)
(* only atom occurs in no text.                                            *)
(***************************************************************************)
EXTENDS Integers, Sequences, FiniteSets, TLC

NL == "\n"

None == <<"<None>">>

\* bool(x) of a str-or-None value: None and '' are false
Truthy(x) == x # None /\ x # << >>

SP == " "

RECURSIVE join(_, _)
\* sep.join(parts): parts is a list of str
join(sep, parts) ==
    IF parts = << >> THEN << >>
    ELSE IF Len(parts) = 1 THEN parts[1]
    ELSE parts[1] \o sep \o join(sep, Tail(parts))

Digits == <<"0", "1", "2", "3", "4", "5", "6", "7", "8", "9">>

RECURSIVE DecNat(_)
DecNat(n) == IF n < 10 THEN <<Digits[n + 1]>>
             ELSE DecNat(n \div 10) \o <<Digits[(n % 10) + 1]>>

\* format(n, 'd'): the decimal digits of an int, with a sign when negative
format_d(n) == IF n < 0 THEN <<"-">> \o DecNat(0 - n) ELSE DecNat(n)

(***************************************************************************)
(* Reading text back: lines, containment, decimal numerals.                *)
(***************************************************************************)
RECURSIVE split_lines(_)
\* s.split('\n')
split_lines(s) ==
    LET nls == {i \in 1..Len(s) : s[i] = NL}
    IN IF nls = {} THEN <<s>>
       ELSE LET i == CHOOSE k \in nls : \A m \in nls : k <= m
            IN <<SubSeq(s, 1, i - 1)>> \o split_lines(SubSeq(s, i + 1, Len(s)))

\* sub in s, for str
Contains(s, sub) ==
    \E i \in 1..(Len(s) - Len(sub) + 1) : SubSeq(s, i, i + Len(sub) - 1) = sub

StartsWith(s, pre) == Len(pre) <= Len(s) /\ SubSeq(s, 1, Len(pre)) = pre

IsDigit(a) == \E d \in 1..10 : Digits[d] = a

DigitVal(a) == (CHOOSE d \in 1..10 : Digits[d] = a) - 1

RECURSIVE ParseNat(_)
\* int(s) of a non-empty run of digits
ParseNat(ds) == IF Len(ds) = 1 THEN DigitVal(ds[1])
                ELSE 10 * ParseNat(SubSeq(ds, 1, Len(ds) - 1)) + DigitVal(ds[Len(ds)])

(***************************************************************************)
(* litesoph/common/task.py: assemable_job_cmd                              *)
(***************************************************************************)
job_script_first_line == <<"#!/bin/bash">>

remote_job_script_last_line == <<"touch", SP, "Done">>

mpirun == <<"mpirun">>

\* f'cd {cd_path};'
cd_line(cd_path) == <<"cd", SP>> \o cd_path \o <<";">>

\* f'{mpi_path} -np {np:d} {engine_cmd}'
mpi_line(mpi_path, np, engine_cmd) ==
    mpi_path \o <<SP, "-np", SP>> \o format_d(np) \o <<SP>> \o engine_cmd

\* f"bash -c 'echo $$;  {engine_cmd}'"
bash_line(engine_cmd) ==
    <<"bash", SP, "-c", SP, "'", "echo", SP, "$$", ";", SP, SP>> \o engine_cmd \o <<"'">>

\* assemable_job_cmd with the scheduler block appended ahead of the directive
assemable_job_cmd_SchedulerFirst(engine_cmd, np, cd_path, mpi_path, remote, scheduler_block, module_load_block, extra_block) ==
    LET s0 == IF remote /\ Truthy(scheduler_block)
              THEN <<scheduler_block, job_script_first_line>>
              ELSE <<job_script_first_line>>
        s2 == IF remote /\ Truthy(module_load_block)
              THEN Append(s0, module_load_block) ELSE s0
        s3 == IF Truthy(cd_path) THEN Append(s2, cd_line(cd_path)) ELSE s2
        mpi == IF ~Truthy(mpi_path) THEN mpirun ELSE mpi_path
        s4 == IF Truthy(engine_cmd)
              THEN IF np > 1
                   THEN Append(s3, mpi_line(mpi, np, engine_cmd))
                   ELSE Append(s3, bash_line(engine_cmd))
              ELSE s3
        s5 == IF Truthy(extra_block) THEN Append(s4, extra_block) ELSE s4
        s6 == IF remote THEN Append(s5, remote_job_script_last_line) ELSE s5
    IN join(<<NL>>, s6)

\* assemable_job_cmd with the sentinel appended before the extra block
assemable_job_cmd_SentinelEarly(engine_cmd, np, cd_path, mpi_path, remote, scheduler_block, module_load_block, extra_block) ==
    LET s0 == <<job_script_first_line>>
        s1 == IF remote /\ Truthy(scheduler_block)
              THEN Append(s0, scheduler_block) ELSE s0
        s2 == IF remote /\ Truthy(module_load_block)
              THEN Append(s1, module_load_block) ELSE s1
        s3 == IF Truthy(cd_path) THEN Append(s2, cd_line(cd_path)) ELSE s2
        mpi == IF ~Truthy(mpi_path) THEN mpirun ELSE mpi_path
        s4 == IF Truthy(engine_cmd)
              THEN IF np > 1
                   THEN Append(s3, mpi_line(mpi, np, engine_cmd))
                   ELSE Append(s3, bash_line(engine_cmd))
              ELSE s3
        s5 == IF remote THEN Append(s4, remote_job_script_last_line) ELSE s4
        s6 == IF Truthy(extra_block) THEN Append(s5, extra_block) ELSE s5
    IN join(<<NL>>, s6)

\* assemable_job_cmd with the launcher chosen by np >= 1 instead of np > 1
assemable_job_cmd_LauncherAtOne(engine_cmd, np, cd_path, mpi_path, remote, scheduler_block, module_load_block, extra_block) ==
    LET s0 == <<job_script_first_line>>
        s1 == IF remote /\ Truthy(scheduler_block)
              THEN Append(s0, scheduler_block) ELSE s0
        s2 == IF remote /\ Truthy(module_load_block)
              THEN Append(s1, module_load_block) ELSE s1
        s3 == IF Truthy(cd_path) THEN Append(s2, cd_line(cd_path)) ELSE s2
        mpi == IF ~Truthy(mpi_path) THEN mpirun ELSE mpi_path
        s4 == IF Truthy(engine_cmd)
              THEN IF np >= 1
                   THEN Append(s3, mpi_line(mpi, np, engine_cmd))
                   ELSE Append(s3, bash_line(engine_cmd))
              ELSE s3
        s5 == IF Truthy(extra_block) THEN Append(s4, extra_block) ELSE s4
        s6 == IF remote THEN Append(s5, remote_job_script_last_line) ELSE s5
    IN join(<<NL>>, s6)

\* assemable_job_cmd with the cd line appended after the execution line
assemable_job_cmd_CdAfterExec(engine_cmd, np, cd_path, mpi_path, remote, scheduler_block, module_load_block, extra_block) ==
    LET s0 == <<job_script_first_line>>
        s1 == IF remote /\ Truthy(scheduler_block)
              THEN Append(s0, scheduler_block) ELSE s0
        s2 == IF remote /\ Truthy(module_load_block)
              THEN Append(s1, module_load_block) ELSE s1
        mpi == IF ~Truthy(mpi_path) THEN mpirun ELSE mpi_path
        s3 == IF Truthy(engine_cmd)
              THEN IF np > 1
                   THEN Append(s2, mpi_line(mpi, np, engine_cmd))
                   ELSE Append(s2, bash_line(engine_cmd))
              ELSE s2
        s4 == IF Truthy(cd_path) THEN Append(s3, cd_line(cd_path)) ELSE s3
        s5 == IF Truthy(extra_block) THEN Append(s4, extra_block) ELSE s4
        s6 == IF remote THEN Append(s5, remote_job_script_last_line) ELSE s5
    IN join(<<NL>>, s6)

\* assemable_job_cmd with the remote test on the two header blocks dropped
assemable_job_cmd_BlocksAlways(engine_cmd, np, cd_path, mpi_path, remote, scheduler_block, module_load_block, extra_block) ==
    LET s0 == <<job_script_first_line>>
        s1 == IF Truthy(scheduler_block)
              THEN Append(s0, scheduler_block) ELSE s0
        s2 == IF Truthy(module_load_block)
              THEN Append(s1, module_load_block) ELSE s1
        s3 == IF Truthy(cd_path) THEN Append(s2, cd_line(cd_path)) ELSE s2
        mpi == IF ~Truthy(mpi_path) THEN mpirun ELSE mpi_path
        s4 == IF Truthy(engine_cmd)
              THEN IF np > 1
                   THEN Append(s3, mpi_line(mpi, np, engine_cmd))
                   ELSE Append(s3, bash_line(engine_cmd))
              ELSE s3
        s5 == IF Truthy(extra_block) THEN Append(s4, extra_block) ELSE s4
        s6 == IF remote THEN Append(s5, remote_job_script_last_line) ELSE s5
    IN join(<<NL>>, s6)

assemable_job_cmd(engine_cmd, np, cd_path, mpi_path, remote, scheduler_block, module_load_block, extra_block) ==
    LET s0 == <<job_script_first_line>>
        s1 == IF remote /\ Truthy(scheduler_block)
              THEN Append(s0, scheduler_block) ELSE s0
        s2 == IF remote /\ Truthy(module_load_block)
              THEN Append(s1, module_load_block) ELSE s1
        s3 == IF Truthy(cd_path) THEN Append(s2, cd_line(cd_path)) ELSE s2
        mpi == IF ~Truthy(mpi_path) THEN mpirun ELSE mpi_path
        s4 == IF Truthy(engine_cmd)
              THEN IF np > 1
                   THEN Append(s3, mpi_line(mpi, np, engine_cmd))
                   ELSE Append(s3, bash_line(engine_cmd))
              ELSE s3
        s5 == IF Truthy(extra_block) THEN Append(s4, extra_block) ELSE s4
        s6 == IF remote THEN Append(s5, remote_job_script_last_line) ELSE s5
    IN join(<<NL>>, s6)

(***************************************************************************)
(* Values of Python objects.                                               *)
(*   An attribute that was never assigned is Unset (reading it raises      *)
(*   AttributeError).  A dict is a function from its keys to its values.   *)
(*   A pathlib.Path is the sequence of its parts, "/" first when absolute. *)
(***************************************************************************)
Unset == <<"<unset>">>

EmptyDict == [k \in {} |-> 0]

\* d.update(other)
dict_update(d, other) == other @@ d

\* str(path)
path_str(p) ==
    IF p = << >> THEN <<".">>
    ELSE IF p[1] = "/"
         THEN <<"/">> \o join(<<"/">>, [i \in 1..(Len(p) - 1) |-> <<p[i + 1]>>])
         ELSE join(<<"/">>, [i \in 1..Len(p) |-> <<p[i]>>])

\* path.parent
parent(p) == IF Len(p) > 1 THEN SubSeq(p, 1, Len(p) - 1) ELSE p

\* path.relative_to(base), base a prefix of path
relative_to(p, base) == SubSeq(p, Len(base) + 1, Len(p))

(***************************************************************************)
(* litesoph/engines/nwchem/nwchem_task.py                                  *)
(***************************************************************************)
GROUND_STATE == "ground_state"

RT_TDDFT == "rt_tddft"

COMPUTE_SPECTRUM == "spectrum"

MO_POPULATION == "mo_population"

simulation_tasks == {GROUND_STATE, RT_TDDFT}

post_processing_tasks == {COMPUTE_SPECTRUM, MO_POPULATION}

implemented_task == simulation_tasks \cup post_processing_tasks

\* nwchem_data[task]: the 'file_name' and 'req' entries (None, << >> when
\* the entry has no such key)
nwchem_data ==
    [n \in implemented_task |->
        CASE n = GROUND_STATE ->
                 [file_name |-> <<"gs">>, req |-> <<"coordinate.xyz", "nwchem/restart">>]
          [] n = RT_TDDFT ->
                 [file_name |-> <<"td">>, req |-> << >>]
          [] n = COMPUTE_SPECTRUM ->
                 [file_name |-> None, req |-> <<"nwchem/TD_Delta/td.nwo">>]
          [] n = MO_POPULATION ->
                 [file_name |-> None, req |-> <<"nwchem/TD_Delta/td.nwo">>]]

\* BaseNwchemTask.get_engine_network_job_cmd
get_engine_network_job_cmd ==
    <<NL, "##### Please Provide the Excutable Path or environment of NWCHEM or load the module",
      NL, NL, "#eval", SP, "\"$(conda shell.bash hook)\"",
      NL, "#conda", SP, "activate", SP, "<environment name>",
      NL, NL, "#module", SP, "load", SP, "nwchem">>

\* NwchemTask.create_job_script(np, remote_path): the task object after the
\* call and the exception raised ("none": self.job_script was returned)
create_job_script(t, np, remote_path) ==
    LET remote == remote_path # None /\ remote_path # << >>
        t1 == IF remote THEN [t EXCEPT !.engine_path = <<"nwchem">>] ELSE t
        engine_cmd == t1.engine_path \o <<SP>> \o t1.infile \o <<SP, ">", SP>> \o t1.outfile
        rpath == remote_path \o relative_to(t1.task_dir, parent(parent(t1.project_dir)))
        job_script == IF remote
                      THEN assemable_job_cmd(engine_cmd, np, path_str(rpath), None, TRUE,
                                             None, get_engine_network_job_cmd, None)
                      ELSE assemable_job_cmd(engine_cmd, np, path_str(t1.task_dir),
                                             t1.mpi_path, FALSE, None, None, None)
    IN IF t1.task_name \in simulation_tasks
       THEN [task |-> [t1 EXCEPT !.job_script = job_script], exc |-> "none"]
       ELSE [task |-> t1, exc |-> "UnboundLocalError"]

\* Task.check_prerequisite(*_): True, whatever the arguments
check_prerequisite(t, remote) == TRUE

\* Task.check_output that also raises for a nonzero return code
check_output_ZeroOnly(t, ti) ==
    IF t.submit_network
    THEN "sub_returncode" \in DOMAIN ti.network /\ ti.network["sub_returncode"] = 0
    ELSE "returncode" \in DOMAIN ti.local /\ ti.local["returncode"] = 0

\* Task.check_output that accepts a local return code whatever was connected
check_output_LocalFirst(t, ti) ==
    \/ "returncode" \in DOMAIN ti.local
    \/ t.submit_network /\ "sub_returncode" \in DOMAIN ti.network

\* Task.check_output: TRUE when it returns True, FALSE when it raises TaskFailed
check_output(t, ti) ==
    IF t.submit_network
    THEN "sub_returncode" \in DOMAIN ti.network
    ELSE "returncode" \in DOMAIN ti.local

(***************************************************************************)
(* The file system of the local host: the directories that exist and the   *)
(* files with their content, both keyed by path.                           *)
(***************************************************************************)
\* Task.create_directory(directory)
create_directory(d, directory) == [d EXCEPT !.dirs = @ \cup {directory}]

\* open(path, 'w').write(text)
write_file(d, path, text) == [d EXCEPT !.files = (path :> text) @@ @]

\* litesoph.common.utils.get_new_directory: the canonical directory, or the
\* first sibling <name>_<n> that does not exist yet
get_new_directory(d, directory) ==
    IF directory \notin d.dirs THEN directory
    ELSE LET n == CHOOSE k \in 1..(Cardinality(d.dirs) + 1) :
                      /\ Append(parent(directory),
                                directory[Len(directory)] \o "_" \o ToString(k)) \notin d.dirs
                      /\ \A j \in 1..(k - 1) :
                             Append(parent(directory),
                                    directory[Len(directory)] \o "_" \o ToString(j)) \in d.dirs
         IN Append(parent(directory), directory[Len(directory)] \o "_" \o ToString(n))

\* Task.BASH_filename, one name for the class
BASH_filename == "ls_job_script_<uuid4>.sh"

\* NWChem.create_input(): the engine input rendered from the parameters,
\* which carry the restart directory and the geometry file of the project
create_input(t) ==
    <<"permanent_dir", SP>> \o path_str(Append(parent(t.task_dir), "restart"))
        \o <<NL, "geometry", SP>> \o path_str(Append(t.project_dir, "coordinate.xyz"))
        \o <<NL, "task", SP, "dft", SP>> \o <<t.task_name>>

\* NwchemTask.create_template
create_template(t, ti) ==
    [ti EXCEPT !.engine_param = t.user_input @@ @,
               !.engine_input = ("data" :> create_input(t)) @@ @]

\* NwchemTask.write_input: the disk after the call and the exception raised
write_input(t, ti, d) ==
    LET d1 == IF t.task_dir \notin d.dirs THEN create_directory(d, t.task_dir) ELSE d
    IN IF "data" \notin DOMAIN ti.engine_input
       THEN [disk |-> d1, exc |-> "KeyError"]
       ELSE [disk |-> write_file(d1, Append(t.task_dir, t.infile[1] \o t.infile[2]),
                                 ti.engine_input["data"]),
             exc |-> "none"]

\* Task.write_job_script(job_script): open(..., 'w+') empties the file
\* before self.job_script is read
write_job_script(t, d, job_script) ==
    LET t1 == IF Truthy(job_script) THEN [t EXCEPT !.job_script = job_script] ELSE t
        bash_file == Append(t1.directory, BASH_filename)
    IN IF t1.job_script = Unset
       THEN [task |-> [t1 EXCEPT !.bash_file = bash_file],
             disk |-> write_file(d, bash_file, << >>), exc |-> "AttributeError"]
       ELSE [task |-> [t1 EXCEPT !.bash_file = bash_file],
             disk |-> write_file(d, bash_file, t1.job_script), exc |-> "none"]

\* a call made inside an operation, with the exception it raised
Made(fn, exc) == [fn |-> fn, exc |-> exc]

\* NwchemTask.prepare_input that assembles and writes the job script before
\* the engine input
prepare_input_ScriptFirst(t, ti, d) ==
    IF t.task_name = "mo_population"
    THEN [task |-> t, task_info |-> ti, disk |-> d, exc |-> "none", calls |-> << >>]
    ELSE LET sim == t.task_name \in simulation_tasks
             c   == create_job_script(t, 1, None)
             j   == write_job_script(c.task, d, None)
             ti1 == IF sim THEN create_template(j.task, ti) ELSE ti
             w   == IF sim THEN write_input(j.task, ti1, j.disk)
                    ELSE [disk |-> j.disk, exc |-> "none"]
             after == IF sim THEN <<Made("create_template", "none"), Made("write_input", w.exc)>>
                      ELSE << >>
         IN IF c.exc # "none"
            THEN [task |-> c.task, task_info |-> ti, disk |-> d, exc |-> c.exc,
                  calls |-> <<Made("create_job_script", c.exc)>>]
            ELSE IF j.exc # "none"
            THEN [task |-> j.task, task_info |-> ti, disk |-> j.disk, exc |-> j.exc,
                  calls |-> <<Made("create_job_script", "none"),
                              Made("write_job_script", j.exc)>>]
            ELSE [task |-> j.task, task_info |-> ti1, disk |-> w.disk, exc |-> w.exc,
                  calls |-> <<Made("create_job_script", "none"),
                              Made("write_job_script", "none")>> \o after]

\* NwchemTask.prepare_input: task object, task record and disk after the
\* call, the exception that ended it, and the calls it made, in order
prepare_input(t, ti, d) ==
    IF t.task_name = "mo_population"
    THEN [task |-> t, task_info |-> ti, disk |-> d, exc |-> "none", calls |-> << >>]
    ELSE LET sim == t.task_name \in simulation_tasks
             ti1 == IF sim THEN create_template(t, ti) ELSE ti
             w   == IF sim THEN write_input(t, ti1, d)
                    ELSE [disk |-> d, exc |-> "none"]
             c   == create_job_script(t, 1, None)
             j   == write_job_script(c.task, w.disk, None)
             before == IF sim THEN <<Made("create_template", "none"), Made("write_input", w.exc)>>
                       ELSE << >>
         IN IF w.exc # "none"
            THEN [task |-> t, task_info |-> ti1, disk |-> w.disk, exc |-> w.exc,
                  calls |-> before]
            ELSE IF c.exc # "none"
            THEN [task |-> c.task, task_info |-> ti1, disk |-> w.disk, exc |-> c.exc,
                  calls |-> before \o <<Made("create_job_script", c.exc)>>]
            ELSE [task |-> j.task, task_info |-> ti1, disk |-> j.disk, exc |-> j.exc,
                  calls |-> before \o <<Made("create_job_script", "none"),
                                        Made("write_job_script", j.exc)>>]

\* extract_mo_population that records the population file before it tests
\* the orbital window
extract_mo_population_RecordsFirst(t, ti, d, occ, unocc) ==
    LET d1 == create_directory(d, t.task_dir)
        mo_population_file == Append(t.task_dir, "mo_population.dat")
        mo_population_diff_file == Append(t.task_dir, "mo_pop_diff.dat")
        ti1 == [ti EXCEPT !.output = ("mopop_file" :> path_str(mo_population_file)) @@ @]
    IN IF occ < t.user_input["num_occupied_mo"] \/ unocc < t.user_input["num_unoccupied_mo"]
       THEN [task_info |-> ti1, disk |-> d1, exc |-> "InputError"]
       ELSE [task_info |-> [ti1 EXCEPT !.output =
                               ("mopop_diff_file" :> path_str(mo_population_diff_file)) @@ @],
             disk |-> write_file(write_file(d1, mo_population_file, <<"mo population">>),
                                 mo_population_diff_file, <<"mo population difference">>),
             exc |-> "none"]

\* NwchemTask.extract_mo_population, the log holding occ occupied and unocc
\* unoccupied orbitals: task record and disk after the call, and the exception
extract_mo_population(t, ti, d, occ, unocc) ==
    LET d1 == create_directory(d, t.task_dir)
        mo_population_file == Append(t.task_dir, "mo_population.dat")
        mo_population_diff_file == Append(t.task_dir, "mo_pop_diff.dat")
    IN IF occ < t.user_input["num_occupied_mo"] \/ unocc < t.user_input["num_unoccupied_mo"]
       THEN [task_info |-> ti, disk |-> d1, exc |-> "InputError"]
       ELSE [task_info |-> [ti EXCEPT !.output =
                               ("mopop_file" :> path_str(mo_population_file))
                               @@ ("mopop_diff_file" :> path_str(mo_population_diff_file))
                               @@ @],
             disk |-> write_file(write_file(d1, mo_population_file, <<"mo population">>),
                                 mo_population_diff_file, <<"mo population difference">>),
             exc |-> "none"]

\* SubmitLocal.run_job(cmd): the child process is started and waited for and
\* its return code recorded, or the executable is not found
submit_local_run_job(t, ti, started, returncode) ==
    IF ~started
    THEN [task |-> t, task_info |-> ti, exc |-> "FileNotFoundError"]
    ELSE [task |-> [t EXCEPT !.local_cmd_out = <<returncode>>],
          task_info |-> [ti EXCEPT !.local = ("returncode" :> returncode) @@ @],
          exc |-> "none"]

\* SubmitNetwork.run_job(cmd): the script is started detached on the remote
\* host and the return code of the submission recorded
submit_network_run_job(t, ti, started, returncode) ==
    IF ~started
    THEN [task |-> t, task_info |-> ti, exc |-> "Exception"]
    ELSE [task |-> [t EXCEPT !.net_cmd_out = <<returncode>>],
          task_info |-> [ti EXCEPT !.network = ("sub_returncode" :> returncode) @@ @],
          exc |-> "none"]

\* NwchemTask.run_job_local that records nothing when the extraction fails
run_job_local_NoCodeOnError(t, ti, d, started, returncode, occ, unocc) ==
    IF t.task_name = "mo_population"
    THEN LET e == extract_mo_population(t, ti, d, occ, unocc)
         IN [task |-> t,
             task_info |-> IF e.exc = "InputError" THEN e.task_info
                           ELSE [e.task_info EXCEPT !.local = ("returncode" :> 0) @@ @],
             disk |-> e.disk, exc |-> "none"]
    ELSE IF ~t.submit_local
    THEN [task |-> t, task_info |-> ti, disk |-> d, exc |-> "AttributeError"]
    ELSE LET r == submit_local_run_job(t, ti, started, returncode)
         IN [task |-> r.task, task_info |-> r.task_info, disk |-> d, exc |-> r.exc]

\* NwchemTask.run_job_local(cmd); started and returncode are what the child
\* process does, occ and unocc what the time-propagation log holds
run_job_local(t, ti, d, started, returncode, occ, unocc) ==
    IF t.task_name = "mo_population"
    THEN LET e == extract_mo_population(t, ti, d, occ, unocc)
         IN [task |-> t,
             task_info |-> [e.task_info EXCEPT !.local =
                               ("returncode" :> (IF e.exc = "InputError" THEN 1 ELSE 0)) @@ @],
             disk |-> e.disk, exc |-> "none"]
    ELSE IF ~t.submit_local
    THEN [task |-> t, task_info |-> ti, disk |-> d, exc |-> "AttributeError"]
    ELSE LET r == submit_local_run_job(t, ti, started, returncode)
         IN [task |-> r.task, task_info |-> r.task_info, disk |-> d, exc |-> r.exc]

\* no task object constructed, nothing called, nothing on disk
NoTask == [task_name |-> "none"]

NoCall == [op |-> "none", exc |-> "none"]

EmptyDisk == [dirs |-> {}, files |-> EmptyDict]

Substrates == {"local", "remote"}

NoArtifacts == [s \in Substrates |-> {}]

\* no job-submission page shown, nothing in the view panel
NoPage == [job_sub_page |-> "none", run_button |-> "none", bound |-> {}, view_panel |-> << >>]

(***************************************************************************)
(* State.                                                                  *)
(*   asm_args, asm_ret : one call of assemable_job_cmd, of pbs_job_script  *)
(*                       or of update_td_param, its arguments and what it  *)
(*                       returned (None before the call)                   *)
(*   task              : the attributes of one NwchemTask object           *)
(*   task_info         : its TaskInfo record                               *)
(*   disk              : the local file system                             *)
(*   ret               : the last operation on the task and the exception  *)
(*                       it raised ("none" when it returned)               *)
(*   dependent_tasks   : the TaskInfo records of the predecessor tasks      *)
(*   artifacts         : the project files present on each substrate       *)
(*   tasks             : the task objects constructed in one run of the    *)
(*                       pipeline, in order, each with its TaskInfo record  *)
(*   gui               : the job-submission page, its run button, the      *)
(*                       events bound on it, and the text of the view panel*)
(*   status            : the status store of the project                   *)
(*   calls             : the calls the last step made when it was a GUI    *)
(*                       handler, in order, each with the exception it     *)
(*                       raised                                            *)
(***************************************************************************)
VARIABLES asm_args, asm_ret, task, task_info, disk, ret, dependent_tasks, artifacts, tasks, gui, status, calls

asm_vars == <<asm_args, asm_ret>>

task_vars == <<task, task_info, disk, ret>>

env_vars == <<dependent_tasks, artifacts, tasks>>

gui_vars == <<gui, status, calls>>

vars == <<asm_args, asm_ret, task, task_info, disk, ret, dependent_tasks, artifacts, tasks, gui, status, calls>>

\* the GUI before any task page is opened
GuiIdle == /\ gui = NoPage
           /\ status = EmptyDict
           /\ calls = << >>

(***************************************************************************)
(* Arguments of assemable_job_cmd.                                         *)
(***************************************************************************)
MaxNp == 12

ProcessCounts == (0 - 1)..MaxNp

\* engine_cmd as NwchemTask.create_job_script builds it
GsCmd == <<"nwchem", SP, "gs", ".nwi", SP, ">", SP, "gs", ".nwo">>

EngineCmds == {None, << >>, GsCmd}

CdPaths == {None, << >>, <<"/", "home", "/", "user", "/", "proj", "/", "nwchem", "/", "GS">>}

MpiPaths == {None, << >>, <<"/", "opt", "/", "mpi", "/", "bin", "/", "mpiexec">>}

PbsBlock == <<"#PBS", SP, "-N", SP, "job", NL, "#PBS", SP, "-q", SP, "debug">>

SchedulerBlocks == {None, << >>, PbsBlock}

ModuleBlock == <<NL, "#module", SP, "load", SP, "nwchem">>

ModuleLoadBlocks == {None, << >>, ModuleBlock}

ExtraBlocks == {None, << >>, <<"echo", SP, "finished", NL>>,
                <<"touch", SP, "Done", NL, "date">>}

AsmArgs == [engine_cmd : EngineCmds, np : ProcessCounts, cd_path : CdPaths,
            mpi_path : MpiPaths, remote : BOOLEAN,
            scheduler_block : SchedulerBlocks,
            module_load_block : ModuleLoadBlocks,
            extra_block : ExtraBlocks]

AsmInit == /\ asm_args \in AsmArgs
           /\ asm_ret = None
           /\ task = NoTask
           /\ task_info = NoTask
           /\ disk = EmptyDisk
           /\ ret = NoCall
           /\ dependent_tasks = << >>
           /\ artifacts = NoArtifacts
           /\ tasks = << >>
           /\ GuiIdle

\* the call job_script = assemable_job_cmd(...)
CallAssemble ==
    /\ asm_ret = None
    /\ asm_ret' = assemable_job_cmd(asm_args.engine_cmd, asm_args.np,
                                   asm_args.cd_path, asm_args.mpi_path,
                                   asm_args.remote, asm_args.scheduler_block,
                                   asm_args.module_load_block,
                                   asm_args.extra_block)
    /\ UNCHANGED <<asm_args, task_vars, env_vars, gui_vars>>

AsmNext == CallAssemble

SpecAsm == AsmInit /\ [][AsmNext]_vars

AsmReturned == asm_ret # None

FirstLine(s) == split_lines(s)[1]

LastLine(s) == LET ls == split_lines(s) IN ls[Len(ls)]

\* C1: whatever the arguments, the first line of the script returned by
\* assemable_job_cmd is the interpreter directive '#!/bin/bash'.
C1_FirstLineIsDirective ==
    AsmReturned => FirstLine(asm_ret) = <<"#!/bin/bash">>

C1_Witness ==
    /\ AsmReturned
    /\ asm_args.remote
    /\ asm_args.scheduler_block = PbsBlock
    /\ asm_args.engine_cmd = None
    /\ asm_args.cd_path = << >>

\* no caller-supplied command or block carries the sentinel text itself
SentinelFreeArgs ==
    \A x \in {asm_args.engine_cmd, asm_args.scheduler_block,
              asm_args.module_load_block, asm_args.extra_block} :
        ~Contains(x, <<"touch", SP, "Done">>)

\* C2: for a command and blocks that do not contain the sentinel text, the
\* script contains 'touch Done' if and only if remote is true, and when
\* remote is true 'touch Done' is the last line of the script.
C2_SentinelIffRemote ==
    (AsmReturned /\ SentinelFreeArgs) =>
        /\ Contains(asm_ret, <<"touch", SP, "Done">>) <=> asm_args.remote
        /\ asm_args.remote => LastLine(asm_ret) = <<"touch", SP, "Done">>

C2_Witness ==
    /\ AsmReturned
    /\ SentinelFreeArgs
    /\ asm_args.remote
    /\ Truthy(asm_args.extra_block)
    /\ Len(split_lines(asm_ret)) > 3

\* number of lines a header block takes in the script
HeaderLines(block) ==
    IF asm_args.remote /\ Truthy(block) THEN Len(split_lines(block)) ELSE 0

\* the line of the script that runs the command (the command is not empty)
ExecLine ==
    split_lines(asm_ret)[1 + HeaderLines(asm_args.scheduler_block)
                           + HeaderLines(asm_args.module_load_block)
                           + (IF Truthy(asm_args.cd_path) THEN 1 ELSE 0) + 1]

Launcher == IF Truthy(asm_args.mpi_path) THEN asm_args.mpi_path ELSE <<"mpirun">>

\* the longest run of digits at the head of s
LeadingDigits(s) ==
    LET k == CHOOSE n \in 0..Len(s) :
                 /\ \A i \in 1..n : IsDigit(s[i])
                 /\ (n < Len(s) => ~IsDigit(s[n + 1]))
    IN SubSeq(s, 1, k)

\* C3: with a non-empty command, for np > 1 the execution line is the
\* launcher, '-np', the decimal numeral of exactly np, and the command; for
\* np = 1 it is the subshell that echoes $$ and runs the command, and the
\* launcher does not occur in it.
C3_ExecutionLine ==
    (AsmReturned /\ Truthy(asm_args.engine_cmd)) =>
        /\ asm_args.np > 1 =>
              LET head == Launcher \o <<SP, "-np", SP>>
                  rest == SubSeq(ExecLine, Len(head) + 1, Len(ExecLine))
                  num  == LeadingDigits(rest)
              IN /\ StartsWith(ExecLine, head)
                 /\ num # << >>
                 /\ ParseNat(num) = asm_args.np
                 /\ SubSeq(rest, Len(num) + 1, Len(rest)) = <<SP>> \o asm_args.engine_cmd
        /\ asm_args.np = 1 =>
              /\ ExecLine = <<"bash", SP, "-c", SP, "'", "echo", SP, "$$", ";", SP, SP>>
                               \o asm_args.engine_cmd \o <<"'">>
              /\ ~Contains(ExecLine, Launcher)
              /\ ~Contains(ExecLine, <<"-np">>)

C3_Witness ==
    /\ AsmReturned
    /\ asm_args.engine_cmd = GsCmd
    /\ asm_args.np = 12
    /\ Truthy(asm_args.mpi_path)
    /\ Contains(asm_ret, <<"-np", SP, "1", "2", SP, "nwchem">>)

C3_WitnessSerial ==
    /\ AsmReturned
    /\ asm_args.engine_cmd = GsCmd
    /\ asm_args.np = 1
    /\ Contains(asm_ret, <<"echo", SP, "$$">>)

\* the seven blocks of a script in their order, each with the condition
\* under which it is present
BlocksInOrder ==
    <<[present |-> TRUE, text |-> <<"#!/bin/bash">>],
      [present |-> asm_args.remote /\ Truthy(asm_args.scheduler_block),
       text |-> asm_args.scheduler_block],
      [present |-> asm_args.remote /\ Truthy(asm_args.module_load_block),
       text |-> asm_args.module_load_block],
      [present |-> Truthy(asm_args.cd_path),
       text |-> <<"cd", SP>> \o asm_args.cd_path \o <<";">>],
      [present |-> Truthy(asm_args.engine_cmd),
       text |-> IF asm_args.np > 1
                THEN Launcher \o <<SP, "-np", SP>> \o format_d(asm_args.np)
                        \o <<SP>> \o asm_args.engine_cmd
                ELSE <<"bash", SP, "-c", SP, "'", "echo", SP, "$$", ";", SP, SP>>
                        \o asm_args.engine_cmd \o <<"'">>],
      [present |-> Truthy(asm_args.extra_block), text |-> asm_args.extra_block],
      [present |-> asm_args.remote, text |-> <<"touch", SP, "Done">>]>>

IsPresent(b) == b.present

\* C4: the script is exactly its present blocks, each once, in the order
\* directive, scheduler block, bootstrap block, cd line, execution line,
\* extra block, sentinel, one under the other; a 'cd ...;' line is in the
\* script if and only if a working directory was given.
C4_BlockOrder ==
    AsmReturned =>
        LET blocks == SelectSeq(BlocksInOrder, IsPresent)
        IN /\ asm_ret = join(<<NL>>, [i \in 1..Len(blocks) |-> blocks[i].text])
           /\ Truthy(asm_args.cd_path) <=>
                 \E i \in 1..Len(split_lines(asm_ret)) :
                     StartsWith(split_lines(asm_ret)[i], <<"cd", SP>>)

C4_Witness ==
    /\ AsmReturned
    /\ \A i \in 1..7 : BlocksInOrder[i].present
    /\ asm_args.np > 1

\* C5: with remote false neither the scheduler block nor the bootstrap
\* block is in the script, supplied or not; with remote true each supplied
\* block is in the script verbatim, on lines of its own.
C5_HeaderBlocksOnlyRemote ==
    AsmReturned =>
        \A block \in {asm_args.scheduler_block, asm_args.module_load_block} :
            Truthy(block) =>
                IF asm_args.remote
                THEN Contains(asm_ret, <<NL>> \o block \o <<NL>>)
                ELSE ~Contains(asm_ret, block)

C5_Witness ==
    /\ AsmReturned
    /\ ~asm_args.remote
    /\ asm_args.scheduler_block = PbsBlock
    /\ asm_args.module_load_block = ModuleBlock

C5_WitnessRemote ==
    /\ AsmReturned
    /\ asm_args.remote
    /\ asm_args.scheduler_block = PbsBlock
    /\ asm_args.module_load_block = ModuleBlock
    /\ Contains(asm_ret, PbsBlock \o <<NL>> \o ModuleBlock)

(***************************************************************************)
(* One NwchemTask object and the operations on it.                         *)
(***************************************************************************)
ProjectDir == <<"/", "home", "user", "ws", "proj">>

\* lsconfig['engine'].get('nwchem', 'nwchem'): not configured, configured
EnginePaths == {<<"nwchem">>, <<"/", "opt", "/", "nwchem", "/", "bin", "/", "nwchem">>}

\* lsconfig['mpi'].get('mpirun', 'mpirun')
ConfiguredMpi == <<"mpirun">>

MaxTaskNp == 2

RemotePaths == {None, << >>, <<"/", "scratch", "u1">>}

MaxReturnCode == 1

ReturnCodes == 0..MaxReturnCode

MaxOrbitals == 2

\* the parameters of a task: the orbital window of an MO-population task
UserInputs(n) ==
    IF n = MO_POPULATION
    THEN {("num_occupied_mo" :> a) @@ ("num_unoccupied_mo" :> b) : a, b \in 1..MaxOrbitals}
    ELSE {EmptyDict}

\* Task.__init__, BaseNwchemTask.__init__ and NwchemTask.create_engine
NewTask(n, engine_path, user_input, d) ==
    [task_name |-> n,
     engine_name |-> "nwchem",
     directory |-> ProjectDir,
     project_dir |-> ProjectDir,
     task_dir |-> get_new_directory(d, ProjectDir \o <<"nwchem", n>>),
     lsconfig |-> [engine |-> engine_path, mpi |-> ConfiguredMpi],
     engine_path |-> engine_path,
     mpi_path |-> ConfiguredMpi,
     user_input |-> user_input,
     infile |-> IF n \in post_processing_tasks THEN Unset
                ELSE nwchem_data[n].file_name \o <<".nwi">>,
     outfile |-> IF n \in post_processing_tasks THEN Unset
                 ELSE nwchem_data[n].file_name \o <<".nwo">>,
     job_script |-> Unset,
     bash_file |-> Unset,
     submit_local |-> FALSE,
     submit_network |-> FALSE,
     connect_attempted |-> FALSE,
     local_cmd_out |-> << >>,
     net_cmd_out |-> << >>]

\* the TaskInfo record after NwchemTask.create_engine
NewTaskInfo(t) ==
    [name |-> t.task_name,
     param |-> t.user_input,
     engine_param |-> EmptyDict,
     input_created |-> FALSE,
     input_saved |-> FALSE,
     engine_input |-> IF t.task_name \in post_processing_tasks THEN EmptyDict
                      ELSE "path" :> path_str(Append(t.task_dir, t.infile[1] \o t.infile[2])),
     output |-> IF t.task_name \in post_processing_tasks THEN EmptyDict
                ELSE "txt_out" :> path_str(Append(t.task_dir, t.outfile[1] \o t.outfile[2])),
     local |-> EmptyDict,
     network |-> EmptyDict]

\* the record of a predecessor task whose local execution record is local
PredecessorInfo(n, local) ==
    [name |-> n, local |-> local,
     engine_param |-> IF n = GROUND_STATE THEN "basis" :> "6-31g" ELSE EmptyDict,
     output |-> "txt_out" :> path_str(ProjectDir \o <<"nwchem", n, nwchem_data[n].file_name[1] \o ".nwo">>)]

\* dependent_tasks of a task of type n: none for the ground state, the
\* ground state for the time propagation, the time propagation for the
\* spectrum, both for the MO population
Predecessors(n, local) ==
    CASE n = GROUND_STATE -> << >>
      [] n = RT_TDDFT -> <<PredecessorInfo(GROUND_STATE, local)>>
      [] n = COMPUTE_SPECTRUM -> <<PredecessorInfo(RT_TDDFT, local)>>
      [] n = MO_POPULATION -> <<PredecessorInfo(GROUND_STATE, local),
                                PredecessorInfo(RT_TDDFT, local)>>

TaskInit ==
    /\ asm_args = [engine_cmd |-> None]
    /\ asm_ret = None
    /\ \E n \in implemented_task, e \in EnginePaths, was_run \in BOOLEAN :
          \E u \in UserInputs(n) :
             /\ disk = [dirs |-> {ProjectDir} \cup
                                 (IF was_run THEN {ProjectDir \o <<"nwchem", n>>} ELSE {}),
                        files |-> EmptyDict]
             /\ task = NewTask(n, e, u, disk)
             /\ task_info = NewTaskInfo(task)
    /\ ret = NoCall
    /\ dependent_tasks = Predecessors(task.task_name, EmptyDict)
    /\ artifacts = NoArtifacts
    /\ tasks = << >>
    /\ GuiIdle

CreateJobScript ==
    \E np \in 1..MaxTaskNp, remote_path \in RemotePaths :
        LET r == create_job_script(task, np, remote_path)
        IN /\ task' = r.task
           /\ ret' = [op |-> "create_job_script", exc |-> r.exc,
                      remote |-> Truthy(remote_path)]
           /\ UNCHANGED <<task_info, disk, asm_vars, env_vars, gui_vars>>

PrepareInput ==
    LET r == prepare_input(task, task_info, disk)
    IN /\ task' = r.task
       /\ task_info' = r.task_info
       /\ disk' = r.disk
       /\ ret' = [op |-> "prepare_input", exc |-> r.exc, remote |-> FALSE,
                  calls |-> r.calls]
       /\ UNCHANGED <<asm_vars, env_vars, gui_vars>>

\* Task.set_submit_local
SetSubmitLocal ==
    /\ task' = [task EXCEPT !.submit_local = TRUE]
    /\ ret' = [op |-> "set_submit_local", exc |-> "none", remote |-> FALSE]
    /\ UNCHANGED <<task_info, disk, asm_vars, env_vars, gui_vars>>

RunJobLocal ==
    /\ IF task.task_name = MO_POPULATION
       THEN \E occ, unocc \in 1..MaxOrbitals :
               LET r == run_job_local(task, task_info, disk, TRUE, 0, occ, unocc)
               IN /\ task' = r.task
                  /\ task_info' = r.task_info
                  /\ disk' = r.disk
                  /\ ret' = [op |-> "run_job_local", exc |-> r.exc, remote |-> FALSE,
                             occ |-> occ, unocc |-> unocc]
       ELSE \E started \in BOOLEAN, returncode \in ReturnCodes :
               LET r == run_job_local(task, task_info, disk, started, returncode, 0, 0)
               IN /\ task' = r.task
                  /\ task_info' = r.task_info
                  /\ disk' = r.disk
                  /\ ret' = [op |-> "run_job_local", exc |-> r.exc, remote |-> FALSE,
                             occ |-> 0, unocc |-> 0]
    /\ UNCHANGED <<asm_vars, env_vars, gui_vars>>

\* Task.connect_to_network: SubmitNetwork(...) connects, or raises
ConnectToNetwork ==
    \E connected \in BOOLEAN :
        /\ task' = IF connected
                   THEN [task EXCEPT !.submit_network = TRUE, !.connect_attempted = TRUE]
                   ELSE [task EXCEPT !.connect_attempted = TRUE]
        /\ ret' = [op |-> "connect_to_network",
                   exc |-> IF connected THEN "none" ELSE "Exception", remote |-> TRUE]
        /\ UNCHANGED <<task_info, disk, asm_vars, env_vars, gui_vars>>

\* task.submit_network.run_job(cmd)
RunJobNetwork ==
    /\ task.submit_network
    /\ \E started \in BOOLEAN, returncode \in ReturnCodes :
          LET r == submit_network_run_job(task, task_info, started, returncode)
          IN /\ task' = r.task
             /\ task_info' = r.task_info
             /\ ret' = [op |-> "submit_network.run_job", exc |-> r.exc, remote |-> TRUE]
    /\ UNCHANGED <<disk, asm_vars, env_vars, gui_vars>>

CheckOutput ==
    /\ ret' = [op |-> "check_output",
               exc |-> IF check_output(task, task_info) THEN "none" ELSE "TaskFailed",
               remote |-> task.submit_network]
    /\ UNCHANGED <<task, task_info, disk, asm_vars, env_vars, gui_vars>>

TaskNext ==
    \/ CreateJobScript
    \/ PrepareInput
    \/ SetSubmitLocal
    \/ RunJobLocal
    \/ ConnectToNetwork
    \/ RunJobNetwork
    \/ CheckOutput

SpecTask == TaskInit /\ [][TaskNext]_vars

\* C6 (as claimed): for every implemented task type, local or remote,
\* create_job_script returns a script that begins with the interpreter
\* directive and, with a remote path, ends with the sentinel command.
C6_ScriptForEveryTaskType ==
    ret.op = "create_job_script" =>
        /\ ret.exc = "none"
        /\ FirstLine(task.job_script) = <<"#!/bin/bash">>
        /\ ret.remote => LastLine(task.job_script) = <<"touch", SP, "Done">>

\* the execution record check_output consults
ConsultedRecord == IF task.submit_network THEN task_info.network ELSE task_info.local

ConsultedKey == IF task.submit_network THEN "sub_returncode" ELSE "returncode"

\* C10: check_output raises TaskFailed if and only if the consulted
\* execution record has no return code; with a return code recorded, zero
\* or not, it returns True.
C10_CheckOutput ==
    ret.op = "check_output" =>
        /\ ret.exc = "TaskFailed" <=> ConsultedKey \notin DOMAIN ConsultedRecord
        /\ ConsultedKey \in DOMAIN ConsultedRecord => ret.exc = "none"

C10_Witness ==
    /\ ret.op = "check_output"
    /\ ret.exc = "none"
    /\ ~task.submit_network
    /\ "returncode" \in DOMAIN task_info.local
    /\ task_info.local["returncode"] # 0

C10_WitnessNeverRan ==
    /\ ret.op = "check_output"
    /\ ret.exc = "TaskFailed"
    /\ task.submit_network
    /\ "returncode" \in DOMAIN task_info.local

(***************************************************************************)
(* Prerequisite checking: a task, the execution record of its              *)
(* predecessors and the project files on the two substrates.               *)
(***************************************************************************)
\* the files nwchem_data declares as required, and one it does not
Artifacts == {"coordinate.xyz", "nwchem/restart", "nwchem/TD_Delta/td.nwo", "README.txt"}

\* the entries of the 'req' list of the task
req(t) == {nwchem_data[t.task_name].req[i] : i \in 1..Len(nwchem_data[t.task_name].req)}

Substrate(remote) == IF remote THEN "remote" ELSE "local"

PrereqInit ==
    /\ asm_args = [engine_cmd |-> None]
    /\ asm_ret = None
    /\ disk = [dirs |-> {ProjectDir}, files |-> EmptyDict]
    /\ \E n \in implemented_task :
          /\ task = NewTask(n, <<"nwchem">>,
                            CHOOSE u \in UserInputs(n) : TRUE, disk)
          /\ dependent_tasks = Predecessors(n, EmptyDict)
    /\ task_info = NewTaskInfo(task)
    /\ ret = NoCall
    /\ artifacts = NoArtifacts
    /\ tasks = << >>
    /\ GuiIdle

\* task.check_prerequisite(remote)
CheckPrerequisite ==
    \E remote \in BOOLEAN :
        /\ ret' = [op |-> "check_prerequisite",
                   exc |-> IF check_prerequisite(task, remote) THEN "none"
                           ELSE "FileNotFoundError",
                   remote |-> remote]
        /\ UNCHANGED <<task, task_info, disk, asm_vars, env_vars, gui_vars>>

\* a project file is written on, or removed from, a substrate
ArtifactChanges ==
    \E s \in Substrates, a \in Artifacts :
        /\ artifacts' = [artifacts EXCEPT ![s] =
                            IF a \in @ THEN @ \ {a} ELSE @ \cup {a}]
        /\ ret' = [op |-> "environment", exc |-> "none", remote |-> s = "remote"]
        /\ UNCHANGED <<task, task_info, disk, asm_vars, dependent_tasks, tasks, gui_vars>>

\* the predecessor tasks are run locally and their return code is recorded
PredecessorRuns ==
    /\ dependent_tasks # << >>
    /\ \E returncode \in ReturnCodes :
          dependent_tasks' = Predecessors(task.task_name, "returncode" :> returncode)
    /\ ret' = [op |-> "environment", exc |-> "none", remote |-> FALSE]
    /\ UNCHANGED <<task, task_info, disk, asm_vars, artifacts, tasks, gui_vars>>

PrereqNext ==
    \/ CheckPrerequisite
    \/ ArtifactChanges
    \/ PredecessorRuns
    \/ CreateJobScript

SpecPrereq == PrereqInit /\ [][PrereqNext]_vars

\* C7 (as claimed): check_prerequisite(remote) reports failure if and only
\* if an artifact of the task's 'req' list is absent on the substrate the
\* remote flag selects.
C7_FailsIffRequiredAbsent ==
    ret.op = "check_prerequisite" =>
        (ret.exc # "none" <=> req(task) \ artifacts[Substrate(ret.remote)] # {})

\* the predecessor ground-state task has a recorded return code 0
PredecessorSucceeded ==
    /\ "returncode" \in DOMAIN dependent_tasks[1].local
    /\ dependent_tasks[1].local["returncode"] = 0

\* C8 (as claimed): for a time-propagation task whose predecessor
\* ground-state task has no recorded return code 0, check_prerequisite,
\* called before any job script is built, fails with a not-found error.
C8_FailsWithoutPredecessor ==
    (/\ ret.op = "check_prerequisite"
     /\ task.task_name = RT_TDDFT
     /\ ~PredecessorSucceeded
     /\ task.job_script = Unset) =>
        ret.exc = "FileNotFoundError"

(***************************************************************************)
(* litesoph/gui/gui.py: the job-submission handlers of GUIAPP, on the task *)
(* whose events bind_task_events has bound.                                *)
(***************************************************************************)
\* the artifacts a task of another engine declares as required: the
\* geometry file of the project
engine_req(t) == {"coordinate.xyz"}

\* check_prerequisite of a task of another engine, which looks for the
\* required artifacts on the selected substrate: the exception it raises
engine_check_prerequisite(t, arts, network) ==
    IF engine_req(t) \subseteq arts[Substrate(network)] THEN "none" ELSE "FileNotFoundError"

\* task.check_prerequisite(network), or with by_keyword
\* task.check_prerequisite(network = True): the exception raised; the
\* signature (self, *_) of Task takes no keyword argument
call_check_prerequisite(t, arts, network, by_keyword) ==
    IF t.engine_name = "nwchem"
    THEN IF by_keyword THEN "TypeError"
         ELSE IF check_prerequisite(t, network) THEN "none" ELSE "none"
    ELSE engine_check_prerequisite(t, arts, network)

\* GUIAPP._check_task_run_condition(task): False when the check raises
\* FileNotFoundError
check_task_run_condition(t, arts) ==
    call_check_prerequisite(t, arts, FALSE, FALSE) # "FileNotFoundError"

Call(fn, exc) == [fn |-> fn, exc |-> exc]

\* the events both run-button handlers bind on the page they create
PageEvents == {"Run", "View", "Save", "Create"}

\* what the entries of the job-submission page can hold
SubCommands == {<< >>, <<"bash">>, <<"qsub">>}

SubJobTypes == {0, 1}

\* the processor counts entered on the page
Processors == {1, MaxTaskNp}

\* the exit codes of a submitted job: success and a failure
ExitCodes == {0, MaxReturnCode}

RemoteDir == <<"/", "scratch", "u1">>

\* the engines of the tasks the GUI creates
Engines == {"nwchem", "gpaw"}

GuiInit ==
    /\ asm_args = [engine_cmd |-> None]
    /\ asm_ret = None
    /\ disk = [dirs |-> {ProjectDir}, files |-> EmptyDict]
    /\ \E n \in simulation_tasks, e \in Engines :
          /\ task = [NewTask(n, <<"nwchem">>, EmptyDict, disk) EXCEPT !.engine_name = e]
          /\ dependent_tasks = Predecessors(n, EmptyDict)
    /\ task_info = NewTaskInfo(task)
    /\ ret = NoCall
    /\ artifacts = NoArtifacts
    /\ tasks = << >>
    /\ GuiIdle

\* GUIAPP._on_run_local_button and GUIAPP._on_run_network_button
on_run_button(kind) ==
    /\ IF ~check_task_run_condition(task, artifacts)
       THEN /\ calls' = <<Call("check_prerequisite", "FileNotFoundError"),
                          Call("messagebox.showerror", "none")>>
            /\ UNCHANGED gui
       ELSE /\ calls' = <<Call("check_prerequisite", "none"), Call("JobSubPage", "none"),
                          Call("set_run_button_state", "none"), Call("bind", "none")>>
            /\ gui' = [gui EXCEPT !.job_sub_page = kind, !.run_button = "disable",
                                  !.bound = PageEvents]
    /\ ret' = [op |-> "on_run_button", exc |-> "none", remote |-> kind = "Network"]
    /\ UNCHANGED <<task, task_info, disk, status, asm_vars, env_vars>>

on_run_local_button == on_run_button("Local")

on_run_network_button == on_run_button("Network")

\* GUIAPP._on_create_local_job_script
on_create_local_job_script ==
    /\ gui.job_sub_page = "Local"
    /\ "Create" \in gui.bound
    /\ \E np \in Processors :
          LET r == create_job_script(task, np, None)
          IN /\ task' = r.task
             /\ calls' = <<Call("create_job_script", r.exc)>>
                            \o (IF r.exc = "none" THEN <<Call("insert_text", "none")>> ELSE << >>)
             /\ gui' = IF r.exc = "none" THEN [gui EXCEPT !.view_panel = r.task.job_script]
                       ELSE gui
             /\ ret' = [op |-> "on_create_local_job_script", exc |-> r.exc, remote |-> FALSE]
    /\ UNCHANGED <<task_info, disk, status, asm_vars, env_vars>>

\* GUIAPP._on_create_remote_job_script
on_create_remote_job_script ==
    /\ gui.job_sub_page = "Network"
    /\ "Create" \in gui.bound
    /\ \E np \in Processors, rpath \in {<< >>, RemoteDir} :
          IF Truthy(rpath)
          THEN LET r == create_job_script(task, np, rpath)
               IN /\ task' = r.task
                  /\ calls' = <<Call("create_job_script", r.exc)>>
                                \o (IF r.exc = "none" THEN <<Call("insert_text", "none")>>
                                    ELSE << >>)
                  /\ gui' = IF r.exc = "none"
                            THEN [gui EXCEPT !.view_panel = r.task.job_script] ELSE gui
                  /\ ret' = [op |-> "on_create_remote_job_script", exc |-> r.exc,
                             remote |-> TRUE]
          ELSE /\ calls' = <<Call("messagebox.showerror", "none")>>
               /\ ret' = [op |-> "on_create_remote_job_script", exc |-> "none",
                          remote |-> TRUE]
               /\ UNCHANGED <<task, gui>>
    /\ UNCHANGED <<task_info, disk, status, asm_vars, env_vars>>

\* the user empties the text of the view panel
edit_view_panel ==
    /\ gui.view_panel # << >>
    /\ gui' = [gui EXCEPT !.view_panel = << >>]
    /\ calls' = << >>
    /\ ret' = [op |-> "environment", exc |-> "none", remote |-> FALSE]
    /\ UNCHANGED <<task, task_info, disk, status, asm_vars, env_vars>>

\* GUIAPP._on_save_job_script
on_save_job_script ==
    /\ gui.job_sub_page # "none"
    /\ "Save" \in gui.bound
    /\ LET w == write_job_script(task, disk, gui.view_panel)
       IN /\ task' = w.task
          /\ disk' = w.disk
          /\ calls' = <<Call("set_run_button_state", "none"), Call("get_text", "none"),
                        Call("write_job_script", w.exc)>>
          /\ ret' = [op |-> "on_save_job_script", exc |-> w.exc,
                     remote |-> gui.job_sub_page = "Network"]
    /\ gui' = [gui EXCEPT !.run_button = "active"]
    /\ UNCHANGED <<task_info, status, asm_vars, env_vars>>

\* a validation that only asks for the queue command
BadSubmitCommand_QueueOnly(sub_job_type, cmd) == sub_job_type = 1 /\ ~Truthy(cmd)

\* the queue command is missing, or the direct command is not 'bash'
BadSubmitCommand(sub_job_type, cmd) ==
    IF sub_job_type = 1 THEN ~Truthy(cmd) ELSE cmd # <<"bash">>

\* status.update(key, value)
status_update(st, key, value) == (key :> value) @@ st

\* job_sub_page.sub_job_type.get() and job_sub_page.sub_command.get(), with
\* what they returned
GetJobType(v) == [fn |-> "sub_job_type.get", exc |-> "none", job_type |-> v]

GetCommand(v) == [fn |-> "sub_command.get", exc |-> "none", command |-> v]

\* _run_local that records a failure when run_job_local raises
local_status_RecordsOnRaise(st, r, np) ==
    IF r.exc # "none" THEN status_update(st, "sub_local.returncode", 1)
    ELSE IF r.task.local_cmd_out[1] # 0
    THEN status_update(st, "sub_local.returncode", r.task.local_cmd_out[1])
    ELSE status_update(status_update(status_update(st,
             "sub_local.returncode", 0), "sub_local.n_proc", np), "done", 1)

\* the status store after _run_local has called run_job_local: r is what
\* the call left, np the processor count of the page
local_status(st, r, np) ==
    IF r.exc # "none" THEN st
    ELSE IF r.task.local_cmd_out[1] # 0
    THEN status_update(st, "sub_local.returncode", r.task.local_cmd_out[1])
    ELSE status_update(status_update(status_update(st,
             "sub_local.returncode", 0), "sub_local.n_proc", np), "done", 1)

\* GUIAPP._run_local(task), called from the job-submission page
run_local ==
    /\ gui.job_sub_page = "Local"
    /\ "Run" \in gui.bound
    /\ gui.run_button = "active"
    /\ \E sub_job_type \in SubJobTypes, cmd \in SubCommands :
          IF BadSubmitCommand(sub_job_type, cmd)
          THEN /\ calls' = <<GetJobType(sub_job_type), GetCommand(cmd),
                             Call("messagebox.showerror", "none"),
                             Call("set_run_button_state", "none")>>
               /\ gui' = [gui EXCEPT !.run_button = "active"]
               /\ UNCHANGED <<task, task_info, disk, status>>
          ELSE \E np \in Processors, started \in BOOLEAN, returncode \in ExitCodes :
               LET r == run_job_local([task EXCEPT !.submit_local = TRUE], task_info, disk,
                                      started, returncode, 1, 1)
               IN /\ task' = r.task
                  /\ task_info' = r.task_info
                  /\ disk' = r.disk
                  /\ calls' = <<GetJobType(sub_job_type), GetCommand(cmd),
                                Call("set_submit_local", "none"),
                                Call("run_job_local", r.exc)>>
                  /\ status' = local_status(status, r, np)
                  /\ UNCHANGED gui
    /\ ret' = [op |-> "run_local", exc |-> "none", remote |-> FALSE]
    /\ UNCHANGED <<asm_vars, env_vars>>

\* _run_network that marks the task done when the submission returned 0
network_status_MarksDone(st, r) ==
    IF r.task.net_cmd_out[1] # 0
    THEN status_update(st, "sub_network.returncode", r.task.net_cmd_out[1])
    ELSE status_update(status_update(st, "sub_network.returncode", 0), "done", 1)

\* the status store after _run_network has submitted the job: r is what
\* submit_network.run_job left
network_status(st, r) ==
    IF r.task.net_cmd_out[1] # 0
    THEN status_update(st, "sub_network.returncode", r.task.net_cmd_out[1])
    ELSE status_update(st, "sub_network.returncode", 0)

\* what _run_network does once the check has returned: the command is
\* validated, the session opened and the job submitted
submit_over_network ==
    \E sub_job_type \in SubJobTypes, cmd \in SubCommands :
       IF BadSubmitCommand(sub_job_type, cmd)
       THEN /\ calls' = <<Call("check_prerequisite", "none"),
                          GetJobType(sub_job_type), GetCommand(cmd),
                          Call("messagebox.showerror", "none"),
                          Call("set_run_button_state", "none")>>
            /\ gui' = [gui EXCEPT !.run_button = "active"]
            /\ UNCHANGED <<task, task_info, status>>
       ELSE \E connected \in BOOLEAN :
            IF ~connected
            THEN /\ calls' = <<Call("check_prerequisite", "none"),
                               GetJobType(sub_job_type), GetCommand(cmd),
                               Call("connect_to_network", "Exception"),
                               Call("messagebox.showerror", "none"),
                               Call("set_run_button_state", "none")>>
                 /\ gui' = [gui EXCEPT !.run_button = "active"]
                 /\ task' = [task EXCEPT !.connect_attempted = TRUE]
                 /\ UNCHANGED <<task_info, status>>
            ELSE \E started \in BOOLEAN, returncode \in ExitCodes :
                 LET t1 == [task EXCEPT !.submit_network = TRUE, !.connect_attempted = TRUE]
                     r  == submit_network_run_job(t1, task_info, started, returncode)
                 IN IF r.exc # "none"
                    THEN /\ calls' = <<Call("check_prerequisite", "none"),
                                       GetJobType(sub_job_type), GetCommand(cmd),
                                       Call("connect_to_network", "none"),
                                       Call("submit_network.run_job", r.exc),
                                       Call("messagebox.showerror", "none"),
                                       Call("set_run_button_state", "none")>>
                         /\ task' = t1
                         /\ gui' = [gui EXCEPT !.run_button = "active"]
                         /\ UNCHANGED <<task_info, status>>
                    ELSE /\ calls' = <<Call("check_prerequisite", "none"),
                                       GetJobType(sub_job_type), GetCommand(cmd),
                                       Call("connect_to_network", "none"),
                                       Call("submit_network.run_job", "none"),
                                       Call("status.update", "none")>>
                         /\ task' = r.task
                         /\ task_info' = r.task_info
                         /\ status' = network_status(status, r)
                         /\ UNCHANGED gui

\* GUIAPP._run_network that goes on after a not-found error of the check
run_network_IgnoresNotFound ==
    /\ gui.job_sub_page = "Network"
    /\ "Run" \in gui.bound
    /\ gui.run_button = "active"
    /\ LET chk == call_check_prerequisite(task, artifacts, TRUE, TRUE)
       IN IF chk = "FileNotFoundError"
          THEN /\ calls' = <<Call("check_prerequisite", chk),
                             Call("messagebox.showerror", "none"),
                             Call("connect_to_network", "none")>>
               /\ task' = [task EXCEPT !.submit_network = TRUE, !.connect_attempted = TRUE]
               /\ ret' = [op |-> "run_network", exc |-> "none", remote |-> TRUE]
               /\ UNCHANGED <<task_info, status, gui>>
          ELSE IF chk # "none"
          THEN /\ calls' = <<Call("check_prerequisite", chk)>>
               /\ ret' = [op |-> "run_network", exc |-> chk, remote |-> TRUE]
               /\ UNCHANGED <<task, task_info, status, gui>>
          ELSE /\ submit_over_network
               /\ ret' = [op |-> "run_network", exc |-> "none", remote |-> TRUE]
    /\ UNCHANGED <<disk, asm_vars, env_vars>>

\* GUIAPP._run_network(task)
run_network ==
    /\ gui.job_sub_page = "Network"
    /\ "Run" \in gui.bound
    /\ gui.run_button = "active"
    /\ LET chk == call_check_prerequisite(task, artifacts, TRUE, TRUE)
       IN IF chk = "FileNotFoundError"
          THEN /\ calls' = <<Call("check_prerequisite", chk),
                             Call("messagebox.showerror", "none"),
                             Call("set_run_button_state", "none")>>
               /\ gui' = [gui EXCEPT !.run_button = "active"]
               /\ ret' = [op |-> "run_network", exc |-> "none", remote |-> TRUE]
               /\ UNCHANGED <<task, task_info, status>>
          ELSE IF chk # "none"
          THEN /\ calls' = <<Call("check_prerequisite", chk)>>
               /\ ret' = [op |-> "run_network", exc |-> chk, remote |-> TRUE]
               /\ UNCHANGED <<task, task_info, status, gui>>
          ELSE /\ submit_over_network
               /\ ret' = [op |-> "run_network", exc |-> "none", remote |-> TRUE]
    /\ UNCHANGED <<disk, asm_vars, env_vars>>

\* the geometry file is written on, or removed from, a substrate
geometry_file_changes ==
    \E s \in Substrates :
        /\ artifacts' = [artifacts EXCEPT ![s] =
                            IF "coordinate.xyz" \in @ THEN @ \ {"coordinate.xyz"}
                            ELSE @ \cup {"coordinate.xyz"}]
        /\ calls' = << >>
        /\ ret' = [op |-> "environment", exc |-> "none", remote |-> s = "remote"]
        /\ UNCHANGED <<task, task_info, disk, gui, status, asm_vars, dependent_tasks, tasks>>

\* SubmitNetwork.check_job_status(): the sentinel file is on the remote host
check_job_status(arts) == "Done" \in arts["remote"]

\* SubmitNetwork.download_output_files(): every file of the remote project
\* directory is copied to the local one
download_output_files(arts) == [arts EXCEPT !["local"] = @ \cup arts["remote"]]

\* what get_engine_log returns once the log file is on the local host
EngineLog == <<"engine", SP, "log">>

\* GUIAPP._on_out_remote_view_button that downloads and marks the task done
\* whatever the poll reports
remote_view_DoneOnAnyPoll(t, st, arts, vp, get) ==
    IF t.net_cmd_out = << >>
    THEN [calls |-> <<Call("net_cmd_out", "AttributeError")>>,
          status |-> st, artifacts |-> arts, view_panel |-> vp]
    ELSE [calls |-> <<Call("check_job_status", "none"),
                      Call("download_output_files", "none"),
                      Call("status.update", "none"),
                      Call("get_engine_log", "none"), Call("insert_text", "none")>>,
          status |-> status_update(st, "done", 1),
          artifacts |-> download_output_files(arts), view_panel |-> EngineLog]

\* GUIAPP._on_out_remote_view_button that submits the job script again when
\* the job is not complete
remote_view_ResubmitsOnPoll(t, st, arts, vp, get) ==
    IF t.net_cmd_out = << >>
    THEN [calls |-> <<Call("net_cmd_out", "AttributeError")>>,
          status |-> st, artifacts |-> arts, view_panel |-> vp]
    ELSE IF check_job_status(arts)
    THEN [calls |-> <<Call("check_job_status", "none"),
                      Call("download_output_files", "none"),
                      Call("status.update", "none"),
                      Call("get_engine_log", "none"), Call("insert_text", "none")>>,
          status |-> status_update(st, "done", 1),
          artifacts |-> download_output_files(arts), view_panel |-> EngineLog]
    ELSE [calls |-> <<Call("check_job_status", "none"),
                      Call("submit_network.run_job", "none"),
                      Call("status.update", "none")>>,
          status |-> status_update(st, "sub_network.returncode", 0),
          artifacts |-> [arts EXCEPT !["remote"] = @ \cup {BASH_filename}],
          view_panel |-> vp]

\* GUIAPP._on_out_remote_view_button and GUIAPP._get_remote_output, get the
\* answer to the question whether to download the log: the calls made, and
\* the status store, the files and the view panel afterwards
remote_view(t, st, arts, vp, get) ==
    IF t.net_cmd_out = << >>
    THEN [calls |-> <<Call("net_cmd_out", "AttributeError")>>,
          status |-> st, artifacts |-> arts, view_panel |-> vp]
    ELSE IF check_job_status(arts)
    THEN [calls |-> <<Call("check_job_status", "none"),
                      Call("download_output_files", "none"),
                      Call("status.update", "none"),
                      Call("get_engine_log", "none"), Call("insert_text", "none")>>,
          status |-> status_update(st, "done", 1),
          artifacts |-> download_output_files(arts), view_panel |-> EngineLog]
    ELSE IF get
    THEN [calls |-> <<Call("check_job_status", "none"), Call("messagebox.askyesno", "none"),
                      Call("get_output_log", "none"),
                      Call("get_engine_log", "none"), Call("insert_text", "none")>>,
          status |-> st, artifacts |-> arts, view_panel |-> EngineLog]
    ELSE [calls |-> <<Call("check_job_status", "none"), Call("messagebox.askyesno", "none")>>,
          status |-> st, artifacts |-> arts, view_panel |-> vp]

on_out_remote_view_button ==
    /\ gui.job_sub_page = "Network"
    /\ "View" \in gui.bound
    /\ \E get \in BOOLEAN :
          LET r == remote_view(task, status, artifacts, gui.view_panel, get)
          IN /\ calls' = r.calls
             /\ status' = r.status
             /\ artifacts' = r.artifacts
             /\ gui' = [gui EXCEPT !.view_panel = r.view_panel]
    /\ ret' = [op |-> "on_out_remote_view_button", exc |-> "none", remote |-> TRUE]
    /\ UNCHANGED <<task, task_info, disk, asm_vars, dependent_tasks, tasks>>

\* the job submitted to the remote host runs to the last line of its script
remote_job_finishes ==
    /\ task.net_cmd_out # << >>
    /\ ~check_job_status(artifacts)
    /\ artifacts' = [artifacts EXCEPT !["remote"] = @ \cup {"Done"}]
    /\ calls' = << >>
    /\ ret' = [op |-> "environment", exc |-> "none", remote |-> TRUE]
    /\ UNCHANGED <<task, task_info, disk, gui, status, asm_vars, dependent_tasks, tasks>>

GuiNext ==
    \/ on_run_local_button
    \/ on_run_network_button
    \/ on_create_local_job_script
    \/ on_create_remote_job_script
    \/ edit_view_panel
    \/ on_save_job_script
    \/ run_network
    \/ geometry_file_changes

SpecGui == GuiInit /\ [][GuiNext]_vars

\* the handlers that submit a job and look for its completion, the script
\* saved as the view panel holds it
SubmitNext ==
    \/ on_run_local_button
    \/ on_run_network_button
    \/ on_save_job_script
    \/ run_local
    \/ run_network
    \/ on_out_remote_view_button
    \/ remote_job_finishes
    \/ geometry_file_changes

SpecSubmit == GuiInit /\ [][SubmitNext]_vars

\* the prerequisite check of the last handler invocation raised not-found
NotFoundRaised ==
    \E i \in 1..Len(calls) :
        calls[i].fn = "check_prerequisite" /\ calls[i].exc = "FileNotFoundError"

\* C9: a handler invocation in which the prerequisite check raises a
\* not-found error calls neither connect_to_network nor
\* submit_network.run_job, creates no job-submission page and binds no run
\* handler; the page, the bindings, the connection and the network record
\* are as they were before.
C9_NotFoundHaltsSubmission ==
    /\ [](NotFoundRaised =>
            \A i \in 1..Len(calls) :
                calls[i].fn \notin {"connect_to_network", "submit_network.run_job",
                                    "JobSubPage", "bind"})
    /\ [][(NotFoundRaised' /\ calls' # calls) =>
            /\ gui'.job_sub_page = gui.job_sub_page
            /\ gui'.bound = gui.bound
            /\ task' = task
            /\ task_info' = task_info
            /\ status' = status]_vars

C9_Witness ==
    /\ NotFoundRaised
    /\ ret.op = "run_network"
    /\ gui.job_sub_page = "Network"
    /\ ~task.submit_network

C9_WitnessButton ==
    /\ NotFoundRaised
    /\ ret.op = "on_run_button"
    /\ gui.job_sub_page = "none"

(***************************************************************************)
(* litesoph/common/task.py: the input operations of a task, and the calls  *)
(* that reach write_input.                                                 *)
(***************************************************************************)
\* Task.create_input: the flag is set, then the template is built
Task_create_input(t, ti) ==
    [task_info |-> create_template(t, [ti EXCEPT !.input_created = TRUE]), exc |-> "none"]

\* Task.save_input: the flag is set, then the input is written
save_input(t, ti, d) ==
    LET ti1 == [ti EXCEPT !.input_saved = TRUE]
        w   == write_input(t, ti1, d)
    IN [task_info |-> ti1, disk |-> w.disk, exc |-> w.exc]

\* Task.set_engine_input(txt)
set_engine_input(ti, txt) == [ti EXCEPT !.engine_input = ("data" :> txt) @@ @]

RECURSIVE re_sub(_, _, _)
\* re.sub(pattern, repl, string), the pattern a literal text
re_sub(pattern, repl, string) ==
    IF Len(string) < Len(pattern) \/ pattern = << >> THEN string
    ELSE IF SubSeq(string, 1, Len(pattern)) = pattern
    THEN repl \o re_sub(pattern, repl, SubSeq(string, Len(pattern) + 1, Len(string)))
    ELSE <<string[1]>> \o re_sub(pattern, repl, SubSeq(string, 2, Len(string)))

\* add_proper_path when the text is rewritten and written whether or not it
\* holds the local path
add_proper_path_Always(t, ti, d, path) ==
    IF ~("data" \in DOMAIN ti.engine_input /\ Truthy(ti.engine_input["data"]))
    THEN [task_info |-> ti, disk |-> d, exc |-> "none"]
    ELSE LET template == ti.engine_input["data"]
             local    == path_str(parent(parent(t.directory)))
             ti1 == set_engine_input(ti, re_sub(local, path_str(path), template))
             w   == write_input(t, ti1, d)
         IN [task_info |-> ti1, disk |-> w.disk, exc |-> w.exc]

\* Task.add_proper_path(path)
add_proper_path(t, ti, d, path) ==
    IF ~("data" \in DOMAIN ti.engine_input /\ Truthy(ti.engine_input["data"]))
    THEN [task_info |-> ti, disk |-> d, exc |-> "none"]
    ELSE LET template == ti.engine_input["data"]
             local    == path_str(parent(parent(t.directory)))
         IN IF Contains(template, local)
            THEN LET ti1 == set_engine_input(ti, re_sub(local, path_str(path), template))
                     w   == write_input(t, ti1, d)
                 IN [task_info |-> ti1, disk |-> w.disk, exc |-> w.exc]
            ELSE [task_info |-> ti, disk |-> d, exc |-> "none"]

\* the input file of a simulation task
InputFile(t) == Append(t.task_dir, t.infile[1] \o t.infile[2])

\* texts given to set_engine_input
EngineInputs == {<<"task", SP, "dft">>, << >>}

InputInit ==
    /\ asm_args = [engine_cmd |-> None]
    /\ asm_ret = None
    /\ \E n \in simulation_tasks, e \in EnginePaths, was_run \in BOOLEAN :
          /\ disk = [dirs |-> {ProjectDir} \cup
                              (IF was_run THEN {ProjectDir \o <<"nwchem", n>>} ELSE {}),
                     files |-> EmptyDict]
          /\ task = NewTask(n, e, EmptyDict, disk)
          /\ task_info = NewTaskInfo(task)
    /\ ret = NoCall
    /\ dependent_tasks = Predecessors(task.task_name, EmptyDict)
    /\ artifacts = NoArtifacts
    /\ tasks = << >>
    /\ GuiIdle

CreateInput ==
    LET r == Task_create_input(task, task_info)
    IN /\ task_info' = r.task_info
       /\ ret' = [op |-> "create_input", exc |-> r.exc, remote |-> FALSE]
       /\ UNCHANGED <<task, disk, asm_vars, env_vars, gui_vars>>

SaveInput ==
    LET r == save_input(task, task_info, disk)
    IN /\ task_info' = r.task_info
       /\ disk' = r.disk
       /\ ret' = [op |-> "save_input", exc |-> r.exc, remote |-> FALSE]
       /\ UNCHANGED <<task, asm_vars, env_vars, gui_vars>>

SetEngineInput ==
    \E txt \in EngineInputs :
        /\ task_info' = set_engine_input(task_info, txt)
        /\ ret' = [op |-> "set_engine_input", exc |-> "none", remote |-> FALSE]
        /\ UNCHANGED <<task, disk, asm_vars, env_vars, gui_vars>>

AddProperPath ==
    LET r == add_proper_path(task, task_info, disk, RemoteDir)
    IN /\ task_info' = r.task_info
       /\ disk' = r.disk
       /\ ret' = [op |-> "add_proper_path", exc |-> r.exc, remote |-> TRUE]
       /\ UNCHANGED <<task, asm_vars, env_vars, gui_vars>>

\* task.write_input()
WriteInput ==
    /\ task # NoTask
    /\ task.task_name \in simulation_tasks
    /\ LET r == write_input(task, task_info, disk)
       IN /\ disk' = r.disk
          /\ ret' = [op |-> "write_input", exc |-> r.exc, remote |-> FALSE]
    /\ UNCHANGED <<task, task_info, asm_vars, env_vars, gui_vars>>

\* GUIAPP._on_save_button: write_input(self) is called with the text of the
\* view panel as a second argument
OnSaveButton ==
    /\ ret' = [op |-> "on_save_button", exc |-> "TypeError", remote |-> FALSE]
    /\ UNCHANGED <<task, task_info, disk, asm_vars, env_vars, gui_vars>>

InputNext ==
    \/ CreateInput
    \/ SaveInput
    \/ SetEngineInput
    \/ AddProperPath
    \/ PrepareInput
    \/ WriteInput
    \/ OnSaveButton

SpecInput == InputInit /\ [][InputNext]_vars

\* C11 (as claimed): after any sequence of create_input and save_input
\* calls, failing ones included, input_saved is true only if input_created
\* is true.
C11_SavedOnlyIfCreated ==
    task_info.input_saved => task_info.input_created

\* C12 (as claimed): a create_input call in which create_template raises
\* leaves input_created as it was, and a save_input call in which
\* write_input raises leaves input_saved as it was.
C12_FailedSetupCommitsNothing ==
    [][/\ (ret'.op = "create_input" /\ ret'.exc # "none")
              => task_info'.input_created = task_info.input_created
       /\ (ret'.op = "save_input" /\ ret'.exc # "none")
              => task_info'.input_saved = task_info.input_saved]_vars

\* C13 (as claimed): whenever the input file holds the engine input written
\* by write_input, whichever operation reached write_input, input_saved is
\* true.
C13_PersistedImpliesSaved ==
    InputFile(task) \in DOMAIN disk.files => task_info.input_saved

(***************************************************************************)
(* The task objects of one project, constructed one after the other in one *)
(* run of the pipeline.                                                    *)
(***************************************************************************)
MaxTasks == 2

\* a task object and its TaskInfo record, as the constructor leaves them
Constructed(n, d) ==
    LET t == NewTask(n, <<"nwchem">>, EmptyDict, d)
    IN [obj |-> t, info |-> NewTaskInfo(t)]

ProjectInit ==
    /\ asm_args = [engine_cmd |-> None]
    /\ asm_ret = None
    /\ task = NoTask
    /\ task_info = NoTask
    /\ disk = [dirs |-> {ProjectDir}, files |-> EmptyDict]
    /\ ret = NoCall
    /\ dependent_tasks = << >>
    /\ artifacts = NoArtifacts
    /\ tasks = << >>
    /\ GuiIdle

\* NwchemTask(lsconfig, task_info, dependent_tasks)
Construct ==
    /\ Len(tasks) < MaxTasks
    /\ \E n \in simulation_tasks :
          tasks' = Append(tasks, Constructed(n, disk))
    /\ ret' = [op |-> "NwchemTask", exc |-> "none", remote |-> FALSE]
    /\ UNCHANGED <<task, task_info, disk, dependent_tasks, artifacts, asm_vars, gui_vars>>

\* tasks[i].prepare_input()
ProjectPrepareInput ==
    \E i \in 1..Len(tasks) :
        LET r == prepare_input(tasks[i].obj, tasks[i].info, disk)
        IN /\ tasks' = [tasks EXCEPT ![i] = [obj |-> r.task, info |-> r.task_info]]
           /\ disk' = r.disk
           /\ ret' = [op |-> "prepare_input", exc |-> r.exc, remote |-> FALSE]
           /\ UNCHANGED <<task, task_info, dependent_tasks, artifacts, asm_vars, gui_vars>>

\* tasks[i].create_job_script(np, remote_path)
ProjectCreateJobScript ==
    \E i \in 1..Len(tasks), remote_path \in {None, RemoteDir} :
        LET r == create_job_script(tasks[i].obj, MaxTaskNp, remote_path)
        IN /\ tasks' = [tasks EXCEPT ![i].obj = r.task]
           /\ ret' = [op |-> "create_job_script", exc |-> r.exc,
                      remote |-> Truthy(remote_path)]
           /\ UNCHANGED <<task, task_info, disk, dependent_tasks, artifacts, asm_vars,
                          gui_vars>>

\* tasks[i].write_job_script()
ProjectWriteJobScript ==
    \E i \in 1..Len(tasks) :
        LET r == write_job_script(tasks[i].obj, disk, None)
        IN /\ tasks' = [tasks EXCEPT ![i].obj = r.task]
           /\ disk' = r.disk
           /\ ret' = [op |-> "write_job_script", exc |-> r.exc, remote |-> FALSE]
           /\ UNCHANGED <<task, task_info, dependent_tasks, artifacts, asm_vars, gui_vars>>

ProjectNext ==
    \/ Construct
    \/ ProjectPrepareInput
    \/ ProjectCreateJobScript
    \/ ProjectWriteJobScript

SpecProject == ProjectInit /\ [][ProjectNext]_vars

\* C14 (as claimed): any two task instances constructed in one pipeline
\* run, two of the same type constructed before either wrote its input
\* included, have distinct task directories.
C14_TaskDirsDistinct ==
    \A i, j \in 1..Len(tasks) :
        i # j => tasks[i].obj.task_dir # tasks[j].obj.task_dir

\* C15 (as claimed): two distinct tasks of one project that have written
\* their job scripts wrote them to distinct file paths.
C15_JobScriptPathsDistinct ==
    \A i, j \in 1..Len(tasks) :
        (i # j /\ tasks[i].obj.bash_file # Unset /\ tasks[j].obj.bash_file # Unset)
            => tasks[i].obj.bash_file # tasks[j].obj.bash_file

(***************************************************************************)
(* Properties of the submission and completion handlers.                   *)
(***************************************************************************)
HasCall(fn) == \E i \in 1..Len(calls) : calls[i].fn = fn

\* the handler read the job type and the command of the page
InputsRead == HasCall("sub_job_type.get") /\ HasCall("sub_command.get")

JobTypeRead == calls[CHOOSE i \in 1..Len(calls) : calls[i].fn = "sub_job_type.get"].job_type

CommandRead == calls[CHOOSE i \in 1..Len(calls) : calls[i].fn = "sub_command.get"].command

\* no queue submission and a command other than 'bash', or queue
\* submission and no command
Rejectable ==
    \/ JobTypeRead # 1 /\ CommandRead # <<"bash">>
    \/ JobTypeRead = 1 /\ CommandRead = << >>

\* C16: when _run_local or _run_network reads a job type other than 1 with a
\* command other than 'bash', or job type 1 with an empty command, it shows
\* an error and returns: no submitter is created, no connection opened and
\* no job run, and task, task record and status store are as before.
C16_BadCommandRejected ==
    /\ []((InputsRead /\ Rejectable) =>
            /\ HasCall("messagebox.showerror")
            /\ \A i \in 1..Len(calls) :
                  calls[i].fn \notin {"set_submit_local", "run_job_local",
                                      "connect_to_network", "submit_network.run_job"})
    /\ [][(InputsRead' /\ Rejectable') =>
            /\ task' = task
            /\ task_info' = task_info
            /\ status' = status]_vars

C16_Witness ==
    /\ ret.op = "run_local"
    /\ InputsRead
    /\ JobTypeRead = 0
    /\ CommandRead = <<"qsub">>

C16_WitnessQueue ==
    /\ ret.op = "run_network"
    /\ InputsRead
    /\ JobTypeRead = 1
    /\ CommandRead = << >>

\* run_job_local raised in the last step
RunJobLocalRaised ==
    \E i \in 1..Len(calls) : calls[i].fn = "run_job_local" /\ calls[i].exc # "none"

\* C17: an invocation of _run_local in which run_job_local raises leaves the
\* status store, with its entries sub_local.returncode, sub_local.n_proc
\* and done, and the local execution record of the task unchanged.
C17_RaisedRunRecordsNothing ==
    [][RunJobLocalRaised' =>
          /\ status' = status
          /\ task_info'.local = task_info.local]_vars

C17_Witness ==
    /\ ret.op = "run_local"
    /\ RunJobLocalRaised
    /\ "sub_local.returncode" \in DOMAIN status

\* C18 (as claimed): after a local run the task is marked done in the status
\* store only if the local return code recorded there is 0.
C18_DoneOnlyIfZero ==
    (/\ ret.op = "run_local"
     /\ \E i \in 1..Len(calls) : calls[i].fn = "run_job_local" /\ calls[i].exc = "none"
     /\ "done" \in DOMAIN status)
        => status["sub_local.returncode"] = 0

RemoteViewPolled == ret.op = "on_out_remote_view_button" /\ HasCall("check_job_status")

\* C19: an invocation of the remote completion handler that polls downloads
\* every output and marks the task done when the sentinel is on the remote
\* host, and neither downloads the outputs nor touches the status store when
\* it is not.
C19_DoneIffSentinel ==
    [][RemoteViewPolled' =>
          IF "Done" \in artifacts["remote"]
          THEN /\ HasCall("download_output_files")'
               /\ artifacts["remote"] \subseteq artifacts'["local"]
               /\ "done" \in DOMAIN status'
               /\ status'["done"] = 1
          ELSE /\ ~HasCall("download_output_files")'
               /\ artifacts' = artifacts
               /\ status' = status]_vars

C19_Witness ==
    /\ RemoteViewPolled
    /\ HasCall("download_output_files")
    /\ "Done" \in artifacts["local"]
    /\ "done" \in DOMAIN status

C19_WitnessNotComplete ==
    /\ RemoteViewPolled
    /\ ~HasCall("download_output_files")
    /\ "done" \notin DOMAIN status

\* C20: a poll of a submitted task while the sentinel is absent reports that
\* the job is not complete, leaves the status store, the task, its record
\* and the remote files as they were, and neither connects nor submits.
C20_PollBeforeCompletionIdempotent ==
    [][(RemoteViewPolled' /\ "Done" \notin artifacts["remote"]) =>
          /\ HasCall("messagebox.askyesno")'
          /\ status' = status
          /\ task' = task
          /\ task_info' = task_info
          /\ disk' = disk
          /\ artifacts'["remote"] = artifacts["remote"]
          /\ \A i \in 1..Len(calls') :
                calls'[i].fn \notin {"connect_to_network", "submit_network.run_job",
                                     "write_job_script"}]_vars

C20_Witness ==
    /\ RemoteViewPolled
    /\ HasCall("messagebox.askyesno")
    /\ "Done" \notin artifacts["remote"]
    /\ "sub_network.returncode" \in DOMAIN status
    /\ "done" \notin DOMAIN status

MoPopulationRan == task.task_name = MO_POPULATION /\ ret.op = "run_job_local"

\* the log held fewer occupied or unoccupied orbitals than the window asks
WindowOutOfRange ==
    \/ ret.occ < task.user_input["num_occupied_mo"]
    \/ ret.unocc < task.user_input["num_unoccupied_mo"]

\* C22 (as claimed): when the extraction finds fewer orbitals than the
\* requested window, run_job_local raises the input error to its caller.
C22_ExtractionErrorRaised ==
    (MoPopulationRan /\ WindowOutOfRange) => ret.exc = "InputError"

\* C23: when run_job_local of an MO-population task returns, the local
\* execution record holds a return code, 1 when the window was out of range
\* and 0 when the extraction succeeded.
C23_ReturnCodeAlwaysRecorded ==
    (MoPopulationRan /\ ret.exc = "none") =>
        /\ "returncode" \in DOMAIN task_info.local
        /\ task_info.local["returncode"] = IF WindowOutOfRange THEN 1 ELSE 0

C23_Witness ==
    /\ MoPopulationRan
    /\ ret.exc = "none"
    /\ WindowOutOfRange
    /\ task_info.local["returncode"] = 1

C23_WitnessSucceeded ==
    /\ MoPopulationRan
    /\ ~WindowOutOfRange
    /\ task_info.local["returncode"] = 0
    /\ "mopop_file" \in DOMAIN task_info.output

\* the job script create_job_script builds for a local run of task t on np
\* processors when the engine command starts with engine_path
local_job_script(t, engine_path, np) ==
    assemable_job_cmd(engine_path \o <<SP>> \o t.infile \o <<SP, ">", SP>> \o t.outfile,
                      np, path_str(t.task_dir), t.mpi_path, FALSE, None, None, None)

\* the last operation was a create_job_script without a remote path that
\* returned a job script
LocalScriptCreated ==
    ret.op = "create_job_script" /\ ~ret.remote /\ ret.exc = "none"

\* C30 (as claimed): a create_job_script call without a remote path builds
\* the command from the engine path configured for the task, whatever calls
\* preceded it.
C30_LocalScriptUsesConfiguredEngine ==
    LocalScriptCreated =>
        \E np \in 1..MaxTaskNp :
            task.job_script = local_job_script(task, task.lsconfig.engine, np)

\* what the code does: the command is built from the engine path the task
\* object holds, which a call with a remote path has set to 'nwchem'
C30_LocalScriptUsesCurrentEngine ==
    LocalScriptCreated =>
        /\ task.engine_path \in {task.lsconfig.engine, <<"nwchem">>}
        /\ \E np \in 1..MaxTaskNp :
              task.job_script = local_job_script(task, task.engine_path, np)

(***************************************************************************)
(* Task objects constructed on a task record: the record exists first,     *)
(* with its declared parameters, and NwchemTask(lsconfig, task_info,       *)
(* dependent_tasks) is called on it, any number of times.                  *)
(***************************************************************************)
\* d.get(key, default)
dict_get(d, key, default) == IF key \in DOMAIN d THEN d[key] ELSE default

\* d.pop(key, ...) for each key of keys: the dict that is left
dict_pop(d, keys) == [k \in DOMAIN d \ keys |-> d[k]]

\* nwchem_gs_param_data: the values the engine accepts
nwchem_gs_param_data ==
    [xc |-> [values |-> {"PBE0", "B3LYP"}],
     basis |-> [values |-> {"6-31g", "sto-3g"}]]

\* the dict format_gs_param returns for an accepted xc and basis
gs_input(gen_dict, xc, basis) ==
    [dft |-> [xc |-> xc,
              convergence |-> [energy |-> dict_get(gen_dict, "energy_conv", "1e-5"),
                               density |-> dict_get(gen_dict, "density_conv", "1e-7")],
              iterations |-> dict_get(gen_dict, "max_iter", "None")],
     basis |-> basis]

\* format_gs_param that accepts any basis
format_gs_param_AnyBasis(gen_dict) ==
    LET basis_type == dict_get(gen_dict, "basis_type", "None")
        xc == dict_get(gen_dict, "xc", "None")
        basis == dict_get(gen_dict, "basis", "None")
    IN IF basis_type # "gaussian"
       THEN [value |-> EmptyDict, exc |-> "InputError"]
       ELSE IF xc \notin nwchem_gs_param_data.xc.values
       THEN [value |-> EmptyDict, exc |-> "InputError"]
       ELSE [value |-> gs_input(gen_dict, xc, basis), exc |-> "none"]

\* format_gs_param(gen_dict): the dict returned, or the InputError raised
format_gs_param(gen_dict) ==
    LET basis_type == dict_get(gen_dict, "basis_type", "None")
        xc == dict_get(gen_dict, "xc", "None")
        basis == dict_get(gen_dict, "basis", "None")
    IN IF basis_type # "gaussian"
       THEN [value |-> EmptyDict, exc |-> "InputError"]
       ELSE IF xc \notin nwchem_gs_param_data.xc.values
       THEN [value |-> EmptyDict, exc |-> "InputError"]
       ELSE IF basis \notin nwchem_gs_param_data.basis.values
       THEN [value |-> EmptyDict, exc |-> "InputError"]
       ELSE [value |-> gs_input(gen_dict, xc, basis), exc |-> "none"]

\* out_print(property)
out_print(property) ==
    (IF \E i \in 1..Len(property) : property[i] = "spectrum" THEN <<"dipole">> ELSE << >>)
    \o (IF \E i \in 1..Len(property) : property[i] = "mo_population" THEN <<"moocc">> ELSE << >>)

\* read_pol_dir(pol)[1]
read_pol_dir(pol) ==
    CASE pol = <<1, 0, 0>> -> "x"
      [] pol = <<0, 1, 0>> -> "y"
      [] pol = <<0, 0, 1>> -> "z"

\* a polarization that read_pol_dir does not know (it returns None for it),
\* and the value of an absent one
NoVector == << >>

\* read_pol_dir(pol) is a tuple, so that read_pol_dir(pol)[1] is defined
pol_known(pol) == pol \in {<<1, 0, 0>>, <<0, 1, 0>>, <<0, 0, 1>>}

\* add_gaussian_laser(name, laser)
add_gaussian_laser(name, laser) ==
    [name |-> name \o "_" \o read_pol_dir(laser["polarization"]),
     type |-> "gaussian",
     frequency |-> laser["frequency"],
     center |-> laser["time0"],
     width |-> laser["sigma"],
     polarization |-> read_pol_dir(laser["polarization"]),
     max |-> laser["strength"]]

\* add_delta_laser(name, laser)
add_delta_laser(name, laser) ==
    [name |-> name \o "_" \o read_pol_dir(laser["polarization"]),
     type |-> "delta",
     polarization |-> read_pol_dir(laser["polarization"]),
     max |-> laser["strength"]]

RECURSIVE laser_fields_Prepends(_, _, _, _, _)
\* the loop when every entry is put at the head of the list
laser_fields_Prepends(laser_l, i, pol, laser_list, laser_dict) ==
    IF i > Len(laser_l) THEN [value |-> laser_list, exc |-> "none"]
    ELSE LET laser == IF "polarization" \in DOMAIN laser_l[i] THEN laser_l[i]
                      ELSE ("polarization" :> pol) @@ laser_l[i]
             name == ToString(i - 1)
         IN IF laser["type"] \in {"gaussian", "delta"}
            THEN IF ~pol_known(laser["polarization"])
                 THEN [value |-> laser_list, exc |-> "TypeError"]
                 ELSE LET e == IF laser["type"] = "gaussian"
                               THEN add_gaussian_laser(name, laser)
                               ELSE add_delta_laser(name, laser)
                      IN laser_fields_Prepends(laser_l, i + 1, pol, <<e>> \o laser_list, <<e>>)
            ELSE IF laser_dict = << >>
            THEN [value |-> laser_list, exc |-> "UnboundLocalError"]
            ELSE laser_fields_Prepends(laser_l, i + 1, pol, <<laser_dict[1]>> \o laser_list,
                                       laser_dict)

RECURSIVE laser_fields(_, _, _, _, _)
\* the loop `for i, laser in enumerate(laser_l)` of update_td_param from
\* laser i on: laser_list so far, and laser_dict the entry built last (none
\* yet: << >>), which a laser of another type leaves as it is
laser_fields(laser_l, i, pol, laser_list, laser_dict) ==
    IF i > Len(laser_l) THEN [value |-> laser_list, exc |-> "none"]
    ELSE LET laser == IF "polarization" \in DOMAIN laser_l[i] THEN laser_l[i]
                      ELSE ("polarization" :> pol) @@ laser_l[i]
             name == ToString(i - 1)
         IN IF laser["type"] \in {"gaussian", "delta"}
            THEN IF ~pol_known(laser["polarization"])
                 THEN [value |-> laser_list, exc |-> "TypeError"]
                 ELSE LET e == IF laser["type"] = "gaussian"
                               THEN add_gaussian_laser(name, laser)
                               ELSE add_delta_laser(name, laser)
                      IN laser_fields(laser_l, i + 1, pol, Append(laser_list, e), <<e>>)
            ELSE IF laser_dict = << >>
            THEN [value |-> laser_list, exc |-> "UnboundLocalError"]
            ELSE laser_fields(laser_l, i + 1, pol, Append(laser_list, laser_dict[1]),
                              laser_dict)

\* update_td_param(param): the dict after the call and the exception raised.
\* param['laser'] is a record: items holds the laser dicts, list tells
\* whether the value is a list of them or one dict.  tmax and dt are
\* round(... * as_to_au, 2) of the factors kept here.
update_td_param(param) ==
    LET pol == dict_get(param, "polarization", NoVector)
        strength == dict_get(param, "strength", "None")
        lasers == dict_get(param, "laser", [list |-> TRUE, items |-> << >>])
        rest == dict_pop(param, {"strength", "polarization", "time_step", "number_of_steps",
                                 "output_freq", "properties", "laser", "masking"})
        rt(field) == [tmax |-> <<param["number_of_steps"], param["time_step"]>>,
                      dt |-> <<param["time_step"]>>,
                      print |-> out_print(param["properties"]),
                      field |-> field]
    IN IF lasers.items # << >>
       THEN LET f == laser_fields(lasers.items, 1, pol, << >>, << >>)
            IN [value |-> ("rt_tddft" :> rt(f.value)) @@ dict_pop(rest, {"delay"}),
                exc |-> f.exc]
       ELSE IF ~pol_known(pol)
       THEN [value |-> ("rt_tddft" :> rt(<< >>)) @@ rest, exc |-> "TypeError"]
       ELSE [value |-> ("rt_tddft" :>
                           rt([name |-> "kick_" \o read_pol_dir(pol),
                               type |-> "delta",
                               polarization |-> read_pol_dir(pol),
                               max |-> strength]))
                       @@ rest,
             exc |-> "none"]

\* the task type of PumpProbePostpro
COMPUTE_TAS == "compute_tas"

\* what NwchemTask.create_engine(param) leaves in param for a task of type n
\* in task directory task_dir
create_engine(n, param, task_dir, deps) ==
    IF n \notin simulation_tasks THEN param
    ELSE LET p1 == ("perm" :> path_str(Append(parent(task_dir), "restart")))
                   @@ ("geometry" :> path_str(Append(ProjectDir, "coordinate.xyz")))
                   @@ param
         IN IF n = RT_TDDFT
            THEN update_td_param(("restart_kw" :> "restart")
                                 @@ ("basis" :> dict_get(deps[1].engine_param, "basis", "None"))
                                 @@ p1).value
            ELSE p1

\* the task object of type n with parameters user_input; PumpProbePostpro
\* has no input or output file of its own
NewObject(n, engine_path, user_input, d) ==
    IF n = COMPUTE_TAS
    THEN [NewTask(COMPUTE_SPECTRUM, engine_path, user_input, d) EXCEPT
              !.task_name = COMPUTE_TAS,
              !.task_dir = get_new_directory(d, ProjectDir \o <<"nwchem", COMPUTE_TAS>>)]
    ELSE NewTask(n, engine_path, user_input, d)

\* the construction when param is the record's own dict, not a copy of it
BaseNwchemTask_init_NoCopy(ti, deps, engine_path, d) ==
    LET f == IF ti.name = GROUND_STATE THEN format_gs_param(ti.param)
             ELSE [value |-> ti.param, exc |-> "none"]
        task_dir == get_new_directory(d, ProjectDir \o <<"nwchem", ti.name>>)
        user_input == create_engine(ti.name, f.value, task_dir, deps)
        t == NewObject(ti.name, engine_path, user_input, d)
    IN IF f.exc # "none"
       THEN [task |-> NoTask, task_info |-> ti, exc |-> f.exc]
       ELSE [task |-> t,
             task_info |->
                 IF ti.name = COMPUTE_TAS THEN ti
                 ELSE [ti EXCEPT !.param = IF ti.name = GROUND_STATE THEN @ ELSE user_input,
                                 !.engine_input = NewTaskInfo(t).engine_input,
                                 !.output = NewTaskInfo(t).output @@ @],
             exc |-> "none"]

\* Task.__init__, BaseNwchemTask.__init__ and create_engine on the record ti:
\* the new task object, the record after the call and the exception raised.
\* param is a deep copy, so the record keeps its own.
BaseNwchemTask_init(ti, deps, engine_path, d) ==
    LET f == IF ti.name = GROUND_STATE THEN format_gs_param(ti.param)
             ELSE [value |-> ti.param, exc |-> "none"]
        task_dir == get_new_directory(d, ProjectDir \o <<"nwchem", ti.name>>)
        user_input == create_engine(ti.name, f.value, task_dir, deps)
        t == NewObject(ti.name, engine_path, user_input, d)
    IN IF f.exc # "none"
       THEN [task |-> NoTask, task_info |-> ti, exc |-> f.exc]
       ELSE [task |-> t,
             task_info |->
                 IF ti.name = COMPUTE_TAS THEN ti
                 ELSE [ti EXCEPT !.engine_input = NewTaskInfo(t).engine_input,
                                 !.output = NewTaskInfo(t).output @@ @],
             exc |-> "none"]

\* pathlib.Path(s)
Path(s) ==
    IF s # << >> /\ s[1] = "/"
    THEN <<"/">> \o SelectSeq(Tail(s), LAMBDA a : a # "/")
    ELSE SelectSeq(s, LAMBDA a : a # "/")

RECURSIVE str_replace(_, _)
\* s.replace(old, ''), old not empty
str_replace(s, old) ==
    IF Len(s) < Len(old) THEN s
    ELSE IF StartsWith(s, old) THEN str_replace(SubSeq(s, Len(old) + 1, Len(s)), old)
    ELSE <<s[1]>> \o str_replace(Tail(s), old)

RECURSIVE generate_spectrums(_, _, _)
\* PumpProbePostpro.generate_spectrums: the record after the loop over the
\* dependent tasks deps[i..]
generate_spectrums(ti, deps, i) ==
    IF i > Len(deps) THEN ti
    ELSE LET td_out_file == Path(deps[i].output["txt_out"])
             delay == deps[i].param["delay"]
             spectrum_file == Append(parent(td_out_file),
                                     "spec_delay_" \o ToString(delay) \o ".dat")
             out_spectrum_file == str_replace(path_str(spectrum_file),
                                              path_str(parent(ProjectDir)))
         IN generate_spectrums(
                [ti EXCEPT !.output = ("spec_delay_" \o ToString(delay) :> out_spectrum_file) @@ @],
                deps, i + 1)

MaxTaskDirs == 2

MaxDelay == 1

\* the declared parameters of a record of type n
Params(n) ==
    CASE n = GROUND_STATE ->
             {bt @@ x @@ b :
                 bt \in {EmptyDict, "basis_type" :> "gaussian", "basis_type" :> "pw"},
                 x \in {EmptyDict, "xc" :> "PBE0", "xc" :> "unknown_xc"},
                 b \in {EmptyDict, "basis" :> "6-31g", "basis" :> "unknown_basis"}}
      [] n = RT_TDDFT ->
             {[strength |-> "1e-5", polarization |-> pol, time_step |-> 1,
               number_of_steps |-> 2, output_freq |-> 1, properties |-> pr] :
                 pol \in {<<1, 0, 0>>, <<0, 0, 1>>},
                 pr \in {<<"spectrum">>, <<"spectrum", "mo_population">>}}
      [] n = MO_POPULATION -> UserInputs(n)
      [] OTHER -> {EmptyDict}

\* the record of a time propagation run with a delay, its log in directory dir
DelayedInfo(delay, dir) ==
    [name |-> RT_TDDFT, local |-> EmptyDict, engine_param |-> EmptyDict,
     param |-> "delay" :> delay,
     output |-> "txt_out" :> path_str(ProjectDir \o <<"nwchem", dir, "td.nwo">>)]

\* the time propagations a pump-probe analysis is run over
DelayedTasks ==
    LET one == {DelayedInfo(delay, dir) : delay \in 0..MaxDelay, dir \in {"rt_tddft", "rt_tddft_1"}}
    IN {<<a>> : a \in one}
       \cup {<<a, b>> : a \in {DelayedInfo(0, "rt_tddft")}, b \in one \ {DelayedInfo(0, "rt_tddft")}}

\* a TaskInfo record as it is created, before any task object exists
NewRecord(n, param) ==
    [name |-> n,
     param |-> param,
     engine_param |-> EmptyDict,
     input_created |-> FALSE,
     input_saved |-> FALSE,
     engine_input |-> EmptyDict,
     output |-> EmptyDict,
     local |-> EmptyDict,
     network |-> EmptyDict]

RecordInit ==
    /\ asm_args = [engine_cmd |-> None]
    /\ asm_ret = None
    /\ task = NoTask
    /\ \E n \in implemented_task \cup {COMPUTE_TAS} :
          /\ \E param \in Params(n) : task_info = NewRecord(n, param)
          /\ IF n = COMPUTE_TAS
             THEN dependent_tasks \in DelayedTasks
             ELSE dependent_tasks = Predecessors(n, EmptyDict)
    /\ disk = [dirs |-> {ProjectDir}, files |-> EmptyDict]
    /\ ret = NoCall
    /\ artifacts = NoArtifacts
    /\ tasks = << >>
    /\ GuiIdle

\* NwchemTask(lsconfig, task_info, dependent_tasks) on the record; the object
\* the caller held before stays when the construction raises
NwchemTaskInit ==
    /\ Cardinality(disk.dirs) <= MaxTaskDirs
    /\ LET r == BaseNwchemTask_init(task_info, dependent_tasks, <<"nwchem">>, disk)
       IN /\ task' = IF r.exc = "none" THEN r.task ELSE task
          /\ task_info' = r.task_info
          /\ ret' = [op |-> "NwchemTask", exc |-> r.exc, remote |-> FALSE]
    /\ UNCHANGED <<disk, asm_vars, env_vars, gui_vars>>

\* task.create_template()
CreateTemplate ==
    /\ task # NoTask
    /\ task.task_name \in simulation_tasks
    /\ task_info' = create_template(task, task_info)
    /\ ret' = [op |-> "create_template", exc |-> "none", remote |-> FALSE]
    /\ UNCHANGED <<task, disk, asm_vars, env_vars, gui_vars>>

\* task.generate_spectrums()
GenerateSpectrums ==
    /\ task # NoTask
    /\ task.task_name = COMPUTE_TAS
    /\ task_info' = generate_spectrums(task_info, dependent_tasks, 1)
    /\ ret' = [op |-> "generate_spectrums", exc |-> "none", remote |-> FALSE]
    /\ UNCHANGED <<task, disk, asm_vars, env_vars, gui_vars>>

\* task.create_job_script(np, remote_path)
RecordCreateJobScript ==
    /\ task # NoTask
    /\ task.task_name \in implemented_task
    /\ \E remote_path \in {None, RemoteDir} :
          LET r == create_job_script(task, 1, remote_path)
          IN /\ task' = r.task
             /\ ret' = [op |-> "create_job_script", exc |-> r.exc,
                        remote |-> Truthy(remote_path)]
    /\ UNCHANGED <<task_info, disk, asm_vars, env_vars, gui_vars>>

\* task.prepare_input()
RecordPrepareInput ==
    /\ task # NoTask
    /\ task.task_name \in implemented_task
    /\ PrepareInput

\* task.set_submit_local() and task.run_job_local(cmd), the executable found
RecordRunJobLocal ==
    /\ task # NoTask
    /\ task.task_name \in implemented_task
    /\ \E returncode \in ExitCodes, orbitals \in {0, MaxOrbitals} :
          LET r == run_job_local([task EXCEPT !.submit_local = TRUE], task_info, disk,
                                 TRUE, returncode, orbitals, orbitals)
          IN /\ task' = r.task
             /\ task_info' = r.task_info
             /\ disk' = r.disk
             /\ ret' = [op |-> "run_job_local", exc |-> r.exc, remote |-> FALSE]
    /\ UNCHANGED <<asm_vars, env_vars, gui_vars>>

RecordNext ==
    \/ NwchemTaskInit
    \/ CreateTemplate
    \/ WriteInput
    \/ GenerateSpectrums
    \/ RecordCreateJobScript
    \/ RecordPrepareInput
    \/ RecordRunJobLocal

SpecRecord == RecordInit /\ [][RecordNext]_vars

\* the last operation was the construction of a task object on a
\* ground-state record
GroundStateConstructed == ret.op = "NwchemTask" /\ task_info.name = GROUND_STATE

\* the declared parameters name a basis type other than 'gaussian', or a
\* functional or a basis outside the accepted values
ParamRejected ==
    \/ dict_get(task_info.param, "basis_type", "None") # "gaussian"
    \/ dict_get(task_info.param, "xc", "None") \notin nwchem_gs_param_data.xc.values
    \/ dict_get(task_info.param, "basis", "None") \notin nwchem_gs_param_data.basis.values

\* C24: constructing a ground-state task raises InputError exactly when the
\* basis type is not 'gaussian' or the functional or the basis is outside
\* the accepted values, and a construction that raises it leaves the record,
\* the disk and the task object the caller held as they were.
C24_GroundStateValidation ==
    /\ [](GroundStateConstructed => (ret.exc = "InputError" <=> ParamRejected))
    /\ [][(ret'.op = "NwchemTask" /\ ret'.exc = "InputError") =>
              /\ task_info' = task_info
              /\ disk' = disk
              /\ task' = task]_vars

C24_Witness ==
    /\ GroundStateConstructed
    /\ ret.exc = "InputError"
    /\ task = NoTask
    /\ dict_get(task_info.param, "basis_type", "None") = "gaussian"
    /\ dict_get(task_info.param, "xc", "None") \in nwchem_gs_param_data.xc.values
    /\ "basis" \in DOMAIN task_info.param
    /\ task_info.param["basis"] \notin nwchem_gs_param_data.basis.values
    /\ task_info.output = EmptyDict
    /\ disk.dirs = {ProjectDir}

C24_WitnessAccepted ==
    /\ GroundStateConstructed
    /\ ret.exc = "none"
    /\ ~ParamRejected
    /\ task.task_dir = ProjectDir \o <<"nwchem", GROUND_STATE>>

\* C25: no operation on a task changes the declared parameters of its
\* record.
C25_ParamNeverModified == [][task_info'.param = task_info.param]_vars

C25_Witness ==
    /\ ret.op = "NwchemTask"
    /\ task # NoTask
    /\ task.task_name = RT_TDDFT
    /\ "rt_tddft" \in DOMAIN task.user_input
    /\ "time_step" \notin DOMAIN task.user_input
    /\ "time_step" \in DOMAIN task_info.param
    /\ "perm" \notin DOMAIN task_info.param

C25_WitnessRan ==
    /\ ret.op = "run_job_local"
    /\ task.task_name = GROUND_STATE
    /\ "returncode" \in DOMAIN task_info.local
    /\ "data" \in DOMAIN task_info.engine_input
    /\ "perm" \in DOMAIN task_info.engine_param
    /\ DOMAIN task_info.param = {"basis_type", "xc", "basis"}

\* C26 (as claimed): an entry of the output mapping of a task record keeps
\* its value through every later operation; entries are only added.
C26_OutputEntriesOnlyAdded ==
    [][\A k \in DOMAIN task_info.output :
           /\ k \in DOMAIN task_info'.output
           /\ task_info'.output[k] = task_info.output[k]]_vars

\* the spectrum file of dependent task i as generate_spectrums records it
spectrum_entry(i) ==
    generate_spectrums(NewRecord(COMPUTE_TAS, EmptyDict), <<dependent_tasks[i]>>, 1).output

\* after generate_spectrums the output mapping still holds, for every
\* dependent task, the entry the loop added for it
C26_SpectrumEntriesKept ==
    (ret.op = "generate_spectrums") =>
        \A i \in 1..Len(dependent_tasks) :
            \A k \in DOMAIN spectrum_entry(i) : task_info.output[k] = spectrum_entry(i)[k]

\* the job script of the task is on disk with the text the task holds
JobScriptWritten ==
    /\ task.job_script # Unset
    /\ task.bash_file \in DOMAIN disk.files
    /\ disk.files[task.bash_file] = task.job_script

\* C27 (as claimed): the run button of the job-submission page is active
\* only if a job script has been written for the task; a save that fails
\* does not leave it active.
C27_RunButtonActiveOnlyIfWritten ==
    /\ [](gui.run_button = "active" => JobScriptWritten)
    /\ [][(ret'.op = "on_save_job_script" /\ ret'.exc # "none") =>
              gui'.run_button # "active"]_vars

\* what the code does: every save leaves the button active, and a failed
\* save leaves an empty job script file
C27_SaveAlwaysActivates ==
    (ret.op = "on_save_job_script") =>
        /\ gui.run_button = "active"
        /\ ret.exc # "none" => (task.job_script = Unset /\ disk.files[task.bash_file] = << >>)

\* C28 (as claimed): write_input writes exactly the engine input stored in
\* the task record to the input file, and when no text is stored it fails
\* and leaves the disk as it was, creating neither the task directory nor a
\* file.
C28_WriteInputExactOrNothing ==
    [][ret'.op = "write_input" =>
          IF "data" \in DOMAIN task_info.engine_input
          THEN /\ ret'.exc = "none"
               /\ disk'.files[InputFile(task)] = task_info.engine_input["data"]
          ELSE /\ ret'.exc # "none"
               /\ disk' = disk]_vars

\* what the code does: the stored text is written exactly, and a call with
\* no stored text fails after the task directory was created
C28_WriteInputCreatesDirectoryFirst ==
    [][ret'.op = "write_input" =>
          /\ task.task_dir \in disk'.dirs
          /\ IF "data" \in DOMAIN task_info.engine_input
             THEN /\ ret'.exc = "none"
                  /\ disk'.files[InputFile(task)] = task_info.engine_input["data"]
             ELSE /\ ret'.exc = "KeyError"
                  /\ disk'.files = disk.files]_vars

(***************************************************************************)
(* litesoph/common/task.py: pbs_job_script                                 *)
(***************************************************************************)
\* pbs_job_script(name): the f-string opens with a line break after the
\* quotes and closes with one and three blanks before them
pbs_job_script(name) ==
    <<NL, "#!/bin/bash",
      NL, "#PBS", SP, "-N", SP>> \o name \o
    <<NL, "#PBS", SP, "-o", SP, "output.txt",
      NL, "#PBS", SP, "-e", SP, "error.txt",
      NL, "#PBS", SP, "-l", SP, "select=1:ncpus=4:mpiprocs=4",
      NL, "#PBS", SP, "-q", SP, "debug",
      NL, "#PBS", SP, "-l", SP, "walltime=00:30:00",
      NL, "#PBS", SP, "-V",
      NL, "cd", SP, "$PBS_O_WORKDIR",
      NL, SP, SP, SP>>

MaxNameLen == 4

\* the characters of a job name
NameChars == {"j", "_", "7"}

RECURSIVE Names(_)
\* the job names of at most n characters
Names(n) ==
    IF n = 0 THEN {<< >>}
    ELSE Names(n - 1) \cup {Append(w, c) : w \in {v \in Names(n - 1) : Len(v) = n - 1}, c \in NameChars}

PbsInit ==
    /\ asm_args \in [name : Names(MaxNameLen)]
    /\ asm_ret = None
    /\ task = NoTask
    /\ task_info = NoTask
    /\ disk = EmptyDisk
    /\ ret = NoCall
    /\ dependent_tasks = << >>
    /\ artifacts = NoArtifacts
    /\ tasks = << >>
    /\ GuiIdle

\* the call head_job_script = pbs_job_script(name)
CallPbsJobScript ==
    /\ asm_ret = None
    /\ asm_ret' = pbs_job_script(asm_args.name)
    /\ UNCHANGED <<asm_args, task_vars, env_vars, gui_vars>>

PbsNext == CallPbsJobScript

SpecPbs == PbsInit /\ [][PbsNext]_vars

\* C29 (as claimed): for every name the first line of the text returned by
\* pbs_job_script is the interpreter directive '#!/bin/bash'.
C29_PbsFirstLineIsDirective ==
    AsmReturned => FirstLine(asm_ret) = <<"#!/bin/bash">>

\* what the code does: the first line is empty, the directive is the second
\* line and the job name is on the third
C29_PbsDirectiveOnSecondLine ==
    AsmReturned =>
        /\ FirstLine(asm_ret) = << >>
        /\ split_lines(asm_ret)[2] = <<"#!/bin/bash">>
        /\ split_lines(asm_ret)[3] = <<"#PBS", SP, "-N", SP>> \o asm_args.name

\* check_output returns exactly when the record chosen by network holds a
\* return code under its key
ChecksRecord(network) ==
    ret.exc = "none" <=>
        IF network THEN "sub_returncode" \in DOMAIN task_info.network
        ELSE "returncode" \in DOMAIN task_info.local

\* C31 (as claimed): check_output consults the network execution record
\* if and only if connect_to_network has ever been called on the task
\* object, and the local execution record otherwise.
C31_NetworkRecordOnceCalled ==
    ret.op = "check_output" => ChecksRecord(task.connect_attempted)

\* C31 (amended): the task object holds a submit_network attribute exactly
\* from the first connect_to_network call that returned, a call that raised
\* sets nothing; check_output consults the network execution record if and
\* only if the attribute exists, and then a local return code, recorded
\* before or after, does not make it succeed.
C31_NetworkRecordOnceConnected ==
    /\ [][task'.submit_network <=>
              \/ task.submit_network
              \/ ret'.op = "connect_to_network" /\ ret'.exc = "none"]_vars
    /\ [](ret.op = "check_output" => ChecksRecord(task.submit_network))

C31_Witness ==
    /\ ret.op = "check_output"
    /\ ret.exc = "TaskFailed"
    /\ task.submit_network
    /\ task.submit_local
    /\ task.local_cmd_out # << >>
    /\ "returncode" \in DOMAIN task_info.local
    /\ "sub_returncode" \notin DOMAIN task_info.network

\* a connection attempt that raised, a local run, and check_output succeeds
C31_WitnessRaisedConnect ==
    /\ ret.op = "check_output"
    /\ ret.exc = "none"
    /\ task.connect_attempted
    /\ ~task.submit_network
    /\ "returncode" \in DOMAIN task_info.local

(***************************************************************************)
(* The job scripts of two task objects of one project: each is assembled   *)
(* by create_job_script or given as a text, and written by                 *)
(* write_job_script.                                                       *)
(***************************************************************************)
\* the job_script argument of write_job_script: none, empty, a text the
\* user edited
ScriptTexts == {None, << >>, <<"#!/bin/bash", NL, "date">>}

ScriptInit ==
    /\ asm_args = [engine_cmd |-> None]
    /\ asm_ret = None
    /\ task = NoTask
    /\ task_info = NoTask
    /\ disk = [dirs |-> {ProjectDir}, files |-> EmptyDict]
    /\ ret = NoCall
    /\ dependent_tasks = << >>
    /\ artifacts = NoArtifacts
    /\ \E n, m \in simulation_tasks : tasks = <<Constructed(n, disk), Constructed(m, disk)>>
    /\ GuiIdle

\* tasks[i].create_job_script(np, remote_path)
ScriptCreateJobScript ==
    \E i \in 1..Len(tasks), np \in Processors, remote_path \in {None, RemoteDir} :
        LET r == create_job_script(tasks[i].obj, np, remote_path)
        IN /\ tasks' = [tasks EXCEPT ![i].obj = r.task]
           /\ ret' = [op |-> "create_job_script", exc |-> r.exc,
                      remote |-> Truthy(remote_path)]
           /\ UNCHANGED <<task, task_info, disk, dependent_tasks, artifacts, asm_vars,
                          gui_vars>>

\* tasks[i].write_job_script(text)
ScriptWriteJobScript ==
    \E i \in 1..Len(tasks), text \in ScriptTexts :
        LET r == write_job_script(tasks[i].obj, disk, text)
        IN /\ tasks' = [tasks EXCEPT ![i].obj = r.task]
           /\ disk' = r.disk
           /\ ret' = [op |-> "write_job_script", exc |-> r.exc, remote |-> FALSE,
                      index |-> i, text |-> text]
           /\ UNCHANGED <<task, task_info, dependent_tasks, artifacts, asm_vars, gui_vars>>

ScriptNext ==
    \/ ScriptCreateJobScript
    \/ ScriptWriteJobScript

SpecScript == ScriptInit /\ [][ScriptNext]_vars

\* C32 (as claimed): write_job_script with a non-empty text stores the text
\* as the job script of the task and writes exactly it to the script file;
\* with no text or an empty one it writes the job script assembled before,
\* unchanged; and when it fails because no script was ever assembled, every
\* file that existed keeps its content.
C32_WriteJobScriptFrame ==
    [][ret'.op = "write_job_script" =>
          LET old == tasks[ret'.index].obj
              new == tasks'[ret'.index].obj
          IN IF Truthy(ret'.text)
             THEN /\ ret'.exc = "none"
                  /\ new.job_script = ret'.text
                  /\ disk'.files[new.bash_file] = ret'.text
             ELSE IF old.job_script # Unset
             THEN /\ ret'.exc = "none"
                  /\ new.job_script = old.job_script
                  /\ disk'.files[new.bash_file] = old.job_script
             ELSE /\ ret'.exc # "none"
                  /\ \A f \in DOMAIN disk.files : disk'.files[f] = disk.files[f]]_vars

\* what the code does: the two successful cases as claimed, and a failing
\* call leaves the script file empty
C32_FailedWriteEmptiesFile ==
    [][ret'.op = "write_job_script" =>
          LET old == tasks[ret'.index].obj
              new == tasks'[ret'.index].obj
          IN IF Truthy(ret'.text)
             THEN /\ ret'.exc = "none"
                  /\ new.job_script = ret'.text
                  /\ disk'.files[new.bash_file] = ret'.text
             ELSE IF old.job_script # Unset
             THEN /\ ret'.exc = "none"
                  /\ new.job_script = old.job_script
                  /\ disk'.files[new.bash_file] = old.job_script
             ELSE /\ ret'.exc = "AttributeError"
                  /\ disk'.files[new.bash_file] = << >>]_vars

\* the names of the calls the last prepare_input made, in order
PrepareInputCalls == [i \in 1..Len(ret.calls) |-> ret.calls[i].fn]

\* C33: prepare_input of a simulation task calls create_template,
\* write_input, create_job_script and write_job_script in this order and
\* each returns, so that the input file holds the engine input of the record
\* and the script file the job script; prepare_input of an MO-population
\* task makes no call and leaves the record and the disk as they were.
C33_PrepareInputOrder ==
    /\ []((ret.op = "prepare_input" /\ task.task_name \in simulation_tasks) =>
             /\ PrepareInputCalls = <<"create_template", "write_input",
                                      "create_job_script", "write_job_script">>
             /\ \A i \in 1..Len(ret.calls) : ret.calls[i].exc = "none"
             /\ disk.files[InputFile(task)] = task_info.engine_input["data"]
             /\ disk.files[task.bash_file] = task.job_script)
    /\ [][(ret'.op = "prepare_input" /\ task.task_name = MO_POPULATION) =>
             /\ ret'.calls = << >>
             /\ disk' = disk
             /\ task_info' = task_info
             /\ task' = task]_vars

C33_Witness ==
    /\ ret.op = "prepare_input"
    /\ task.task_name = RT_TDDFT
    /\ Len(ret.calls) = 4
    /\ InputFile(task) \in DOMAIN disk.files
    /\ task.bash_file \in DOMAIN disk.files

C33_WitnessMoPopulation ==
    /\ ret.op = "prepare_input"
    /\ task.task_name = MO_POPULATION
    /\ ret.calls = << >>
    /\ disk.files = EmptyDict

\* C34: an extraction that fails because the orbital window is out of range
\* leaves the output mapping of the task record as it was and writes no
\* file.
C34_FailedExtractionAddsNothing ==
    [][(MoPopulationRan' /\ WindowOutOfRange') =>
          /\ task_info'.output = task_info.output
          /\ disk'.files = disk.files]_vars

C34_Witness ==
    /\ MoPopulationRan
    /\ WindowOutOfRange
    /\ "mopop_file" \notin DOMAIN task_info.output
    /\ "mopop_diff_file" \notin DOMAIN task_info.output
    /\ task.task_dir \in disk.dirs
    /\ Append(task.task_dir, "mo_population.dat") \notin DOMAIN disk.files

\* a failed extraction after one that succeeded: the entries stay
C34_WitnessAfterSuccess ==
    /\ MoPopulationRan
    /\ WindowOutOfRange
    /\ "mopop_file" \in DOMAIN task_info.output
    /\ task_info.local["returncode"] = 1

(***************************************************************************)
(* update_td_param on the parameters of a time propagation, with and       *)
(* without lasers.                                                         *)
(***************************************************************************)
MaxLasers == 2

GaussianLaser ==
    [type |-> "gaussian", frequency |-> "3.0", time0 |-> "50", sigma |-> "5",
     strength |-> "1e-3", polarization |-> <<1, 0, 0>>]

\* the laser dicts of the inputs: a gaussian pulse, one without a
\* polarization of its own, a delta kick, and one of a type that
\* update_td_param does not know
LaserDicts ==
    {GaussianLaser,
     dict_pop(GaussianLaser, {"polarization"}),
     [type |-> "delta", strength |-> "1e-5", polarization |-> <<0, 0, 1>>],
     [type |-> "sine", strength |-> "1e-4", polarization |-> <<0, 1, 0>>]}

RECURSIVE LaserLists(_)
\* the lists of at most n laser dicts
LaserLists(n) ==
    IF n = 0 THEN {<< >>}
    ELSE LaserLists(n - 1)
         \cup {Append(l, d) : l \in {k \in LaserLists(n - 1) : Len(k) = n - 1}, d \in LaserDicts}

\* the values of param['laser']: a list of lasers, or one laser dict
LaserValues ==
    {[list |-> TRUE, items |-> l] : l \in LaserLists(MaxLasers)}
    \cup {[list |-> FALSE, items |-> <<d>>] : d \in LaserDicts}

\* the parameters update_td_param is called with
TdParams ==
    {pol @@ las @@ [strength |-> "1e-5", time_step |-> 1, number_of_steps |-> 2,
                    output_freq |-> 1, properties |-> <<"spectrum">>, delay |-> 0] :
        pol \in {EmptyDict, "polarization" :> <<1, 0, 0>>, "polarization" :> <<0, 0, 1>>},
        las \in {EmptyDict} \cup {"laser" :> v : v \in LaserValues}}

TdInit ==
    /\ asm_args \in [param : TdParams]
    /\ asm_ret = None
    /\ task = NoTask
    /\ task_info = NoTask
    /\ disk = EmptyDisk
    /\ ret = NoCall
    /\ dependent_tasks = << >>
    /\ artifacts = NoArtifacts
    /\ tasks = << >>
    /\ GuiIdle

\* the call update_td_param(param)
CallUpdateTdParam ==
    /\ ret = NoCall
    /\ LET r == update_td_param(asm_args.param)
       IN /\ asm_ret' = r.value
          /\ ret' = [op |-> "update_td_param", exc |-> r.exc, remote |-> FALSE]
    /\ UNCHANGED <<asm_args, task, task_info, disk, env_vars, gui_vars>>

TdNext == CallUpdateTdParam

SpecTd == TdInit /\ [][TdNext]_vars

\* the lasers supplied in the param of the call, in input order
SuppliedLasers == dict_get(asm_args.param, "laser", [list |-> TRUE, items |-> << >>]).items

\* the polarization of supplied laser i: its own, or that of the param
LaserPolarization(i) ==
    dict_get(SuppliedLasers[i], "polarization",
             dict_get(asm_args.param, "polarization", NoVector))

\* every supplied laser declares the type 'gaussian' or 'delta' and has a
\* polarization along an axis
LasersWellFormed ==
    \A i \in 1..Len(SuppliedLasers) :
        /\ SuppliedLasers[i]["type"] \in {"gaussian", "delta"}
        /\ pol_known(LaserPolarization(i))

\* entry e of the field list is built from supplied laser i
BuiltFrom(e, i) ==
    LET laser == SuppliedLasers[i]
        axis == read_pol_dir(LaserPolarization(i))
    IN /\ e.type = laser["type"]
       /\ e.name = ToString(i - 1) \o "_" \o axis
       /\ e.polarization = axis
       /\ e.max = laser["strength"]
       /\ laser["type"] = "gaussian" =>
             /\ e.frequency = laser["frequency"]
             /\ e.center = laser["time0"]
             /\ e.width = laser["sigma"]
       /\ laser["type"] = "delta" => DOMAIN e = {"name", "type", "polarization", "max"}

\* C35: with lasers of type 'gaussian' or 'delta' supplied, the field list
\* update_td_param builds has one entry per laser, in input order, entry i
\* built from laser i with its type; with no laser supplied the field is one
\* delta kick along the polarization axis of the param with its strength.
C35_FieldPerLaser ==
    ret.op = "update_td_param" =>
        IF SuppliedLasers # << >>
        THEN LasersWellFormed =>
                /\ ret.exc = "none"
                /\ Len(asm_ret["rt_tddft"].field) = Len(SuppliedLasers)
                /\ \A i \in 1..Len(SuppliedLasers) : BuiltFrom(asm_ret["rt_tddft"].field[i], i)
        ELSE pol_known(dict_get(asm_args.param, "polarization", NoVector)) =>
                /\ ret.exc = "none"
                /\ asm_ret["rt_tddft"].field =
                       [name |-> "kick_" \o read_pol_dir(asm_args.param["polarization"]),
                        type |-> "delta",
                        polarization |-> read_pol_dir(asm_args.param["polarization"]),
                        max |-> asm_args.param["strength"]]

C35_Witness ==
    /\ ret.op = "update_td_param"
    /\ ret.exc = "none"
    /\ Len(SuppliedLasers) = 2
    /\ SuppliedLasers[1]["type"] = "delta"
    /\ SuppliedLasers[2]["type"] = "gaussian"
    /\ "polarization" \notin DOMAIN SuppliedLasers[2]
    /\ asm_ret["rt_tddft"].field[2].name = "1_z"

C35_WitnessKick ==
    /\ ret.op = "update_td_param"
    /\ ret.exc = "none"
    /\ SuppliedLasers = << >>
    /\ asm_ret["rt_tddft"].field.name = "kick_x"

\* a laser of another type repeats the entry built before it
C35_WitnessOtherType ==
    /\ ret.op = "update_td_param"
    /\ ret.exc = "none"
    /\ Len(SuppliedLasers) = 2
    /\ SuppliedLasers[2]["type"] = "sine"
    /\ asm_ret["rt_tddft"].field[2] = asm_ret["rt_tddft"].field[1]

\* str(self.directory.parent.parent), the local path add_proper_path replaces
LocalRoot == path_str(parent(parent(task.directory)))

\* the stored engine input text holds the local path
HoldsLocalRoot(ti) ==
    /\ "data" \in DOMAIN ti.engine_input
    /\ Contains(ti.engine_input["data"], LocalRoot)

C36_WitnessNoPath ==
    /\ ret.op = "add_proper_path"
    /\ "data" \in DOMAIN task_info.engine_input
    /\ task_info.engine_input["data"] = <<"task", SP, "dft">>
    /\ InputFile(task) \notin DOMAIN disk.files

(***************************************************************************)
(* litesoph/gui/gui.py: the laser design page and the handler that makes   *)
(* the time propagation task of the designed laser.                        *)
(***************************************************************************)
\* the pulses the user can design on the page
LaserDesigns == {<<"pulse", "3.0">>, <<"pulse", "5.0">>}

\* self.rt_tddft_laser_task before the first assignment to it
NoLaserTask == [design |-> Unset, template |-> FALSE]

\* GUIAPP.__init__: no laser design, no laser task, no page
NoLaserPage ==
    [page |-> "none", sub_button |-> "none", bound |-> {},
     laser_design |-> None, rt_tddft_laser_task |-> NoLaserTask, view_panel |-> << >>]

LaserInit ==
    /\ asm_args = [engine_cmd |-> None]
    /\ asm_ret = None
    /\ task = NoTask
    /\ task_info = NoTask
    /\ disk = [dirs |-> {ProjectDir}, files |-> EmptyDict]
    /\ ret = NoCall
    /\ dependent_tasks = << >>
    /\ artifacts = NoArtifacts
    /\ tasks = << >>
    /\ gui = NoLaserPage
    /\ status = EmptyDict
    /\ calls = << >>

\* GUIAPP._on_rt_tddft_laser_task, check_ok what check_status answers: the
\* GUI after the handler and the calls it made
on_rt_tddft_laser_task(g, check_ok) ==
    IF check_ok
    THEN [gui |-> [g EXCEPT !.page = "LaserDesignPage", !.sub_button = "disabled",
                            !.bound = @ \cup {"Generate", "DesignLaser"}],
          calls |-> <<Call("check_status", "none"), Call("show_frame", "none"),
                      Call("set_sub_button_state", "none"), Call("bind", "none")>>]
    ELSE [gui |-> g,
          calls |-> <<Call("check_status", "none"), Call("messagebox.showinfo", "none")>>]

\* _on_choose_laser when a declined design is kept and taken as confirmed
on_choose_laser_TakesAnyAnswer(g, check, written, check_ok) ==
    IF ~Truthy(g.laser_design)
    THEN [gui |-> g, value |-> FALSE, exc |-> "none",
          calls |-> <<Call("messagebox.showerror", "none")>>]
    ELSE IF written
    THEN [gui |-> g, value |-> TRUE, exc |-> "none",
          calls |-> <<Call("messagebox.askokcancel", "none"),
                      Call("write_laser", "none")>>]
    ELSE [gui |-> g, value |-> FALSE, exc |-> "OSError",
          calls |-> <<Call("messagebox.askokcancel", "none"),
                      Call("write_laser", "OSError")>>]

\* GUIAPP._on_choose_laser, check the answer to the question, written
\* whether write_laser succeeds: the GUI after the call, the truth of the
\* value returned, the exception raised and the calls made
on_choose_laser(g, check, written, check_ok) ==
    IF ~Truthy(g.laser_design)
    THEN [gui |-> g, value |-> FALSE, exc |-> "none",
          calls |-> <<Call("messagebox.showerror", "none")>>]
    ELSE IF check
    THEN IF written
         THEN [gui |-> g, value |-> TRUE, exc |-> "none",
               calls |-> <<Call("messagebox.askokcancel", "none"),
                           Call("write_laser", "none")>>]
         ELSE [gui |-> g, value |-> FALSE, exc |-> "OSError",
               calls |-> <<Call("messagebox.askokcancel", "none"),
                           Call("write_laser", "OSError")>>]
    ELSE LET r == on_rt_tddft_laser_task([g EXCEPT !.laser_design = None], check_ok)
         IN [gui |-> r.gui, value |-> FALSE, exc |-> "none",
             calls |-> <<Call("messagebox.askokcancel", "none")>> \o r.calls]

\* the event that shows the laser design page
OnRtTddftLaserTask ==
    \E check_ok \in BOOLEAN :
        LET r == on_rt_tddft_laser_task(gui, check_ok)
        IN /\ gui' = r.gui
           /\ calls' = r.calls
           /\ ret' = [op |-> "on_rt_tddft_laser_task", exc |-> "none", remote |-> FALSE]
           /\ UNCHANGED <<task, task_info, disk, status, asm_vars, env_vars>>

\* GUIAPP._on_design_laser: the design is stored before the pulse is
\* created and plotted
OnDesignLaser ==
    /\ "DesignLaser" \in gui.bound
    /\ \E d \in LaserDesigns, exc \in {"none", "ValueError"} :
          /\ gui' = [gui EXCEPT !.laser_design = d]
          /\ calls' = <<Call("get_laser_pulse", "none"), Call("LaserDesignModel", "none"),
                        Call("create_pulse", exc)>>
                      \o (IF exc = "none" THEN <<Call("plot_time_strength", "none")>>
                          ELSE << >>)
          /\ ret' = [op |-> "on_design_laser", exc |-> exc, remote |-> FALSE]
    /\ UNCHANGED <<task, task_info, disk, status, asm_vars, env_vars>>

\* GUIAPP._generate_td_laser_input: get_task and create_template can raise
GenerateTdLaserInput ==
    /\ "Generate" \in gui.bound
    /\ \E check \in BOOLEAN, written \in BOOLEAN, check_ok \in BOOLEAN,
          made \in {"none", "get_task", "create_template"} :
          LET c == on_choose_laser(gui, check, written, check_ok)
              asked == [op |-> "generate_td_laser_input", remote |-> FALSE,
                        check |-> check]
              new_task == [design |-> c.gui.laser_design, template |-> made = "none"]
          IN IF ~c.value
             THEN /\ gui' = c.gui
                  /\ calls' = c.calls
                  /\ ret' = [exc |-> c.exc] @@ asked
             ELSE IF made = "get_task"
             THEN /\ gui' = c.gui
                  /\ calls' = c.calls \o <<Call("set_laser_design_dict", "none"),
                                           Call("get_parameters", "none"),
                                           Call("get_task", "KeyError")>>
                  /\ ret' = [exc |-> "KeyError"] @@ asked
             ELSE IF made = "create_template"
             THEN /\ gui' = [c.gui EXCEPT !.rt_tddft_laser_task = new_task]
                  /\ calls' = c.calls \o <<Call("set_laser_design_dict", "none"),
                                           Call("get_parameters", "none"),
                                           Call("get_task", "none"),
                                           Call("create_template", "KeyError")>>
                  /\ ret' = [exc |-> "KeyError"] @@ asked
             ELSE /\ gui' = [c.gui EXCEPT !.rt_tddft_laser_task = new_task,
                                          !.view_panel = <<"template">> \o c.gui.laser_design,
                                          !.bound = @ \cup {"Save", "SubLocal", "SubNetwork"}]
                  /\ calls' = c.calls \o <<Call("set_laser_design_dict", "none"),
                                           Call("get_parameters", "none"),
                                           Call("get_task", "none"),
                                           Call("create_template", "none"),
                                           Call("insert_text", "none"),
                                           Call("bind_task_events", "none")>>
                  /\ ret' = [exc |-> "none"] @@ asked
    /\ UNCHANGED <<task, task_info, disk, status, asm_vars, env_vars>>

LaserNext ==
    \/ OnRtTddftLaserTask
    \/ OnDesignLaser
    \/ GenerateTdLaserInput

SpecLaser == LaserInit /\ [][LaserNext]_vars

\* the last handler invocation made call fn and the call returned
Called(fn) == \E i \in 1..Len(calls) : calls[i] = Call(fn, "none")

\* C37: _generate_td_laser_input creates the laser task, and generates its
\* template, only when a laser design is set and the user answers yes to the
\* question of that invocation; with no design set, or on the answer no, no
\* task is created and the stored task stays as it was, and on the answer
\* no the stored laser design is cleared.
C37_LaserTaskNeedsConfirmedDesign ==
    [][ret'.op = "generate_td_laser_input" =>
        /\ (Called("get_task")' \/ Called("create_template")') =>
              /\ Truthy(gui.laser_design)
              /\ Called("messagebox.askokcancel")'
              /\ ret'.check
        /\ (~Truthy(gui.laser_design) \/ ~ret'.check) =>
              /\ ~Called("get_task")'
              /\ gui'.rt_tddft_laser_task = gui.rt_tddft_laser_task
        /\ (Truthy(gui.laser_design) /\ ~ret'.check) => gui'.laser_design = None]_vars

C37_Witness ==
    /\ ret.op = "generate_td_laser_input"
    /\ ret.check
    /\ Called("get_task")
    /\ Called("create_template")
    /\ gui.rt_tddft_laser_task = [design |-> gui.laser_design, template |-> TRUE]

\* the answer no after a task was made: the design is cleared, the task kept
C37_WitnessDeclined ==
    /\ ret.op = "generate_td_laser_input"
    /\ ~ret.check
    /\ Called("messagebox.askokcancel")
    /\ gui.laser_design = None
    /\ gui.rt_tddft_laser_task.template

\* no design set: the error box and nothing else
C37_WitnessNoDesign ==
    /\ ret.op = "generate_td_laser_input"
    /\ calls = <<Call("messagebox.showerror", "none")>>
    /\ gui.rt_tddft_laser_task = NoLaserTask

(***************************************************************************)
(* litesoph/gui/navigation.py: the tree view of the project directory,     *)
(* which GUIAPP.update_project_dir_tree populates every second.            *)
(***************************************************************************)
MaxRebuilds == 2

\* the directories and files that come and go under the project directory
TreeDirs == {ProjectDir \o <<"nwchem">>}

TreeFiles == {ProjectDir \o <<"coordinate.xyz">>, ProjectDir \o <<"nwchem", "gs.nwi">>}

\* the items of list l
Items(l) == {l[i] : i \in 1..Len(l)}

\* the lists that hold every element of S once
Listings(S) ==
    {l \in [1..Cardinality(S) -> S] : Items(l) = S}

\* project_path.glob('**/*'): every directory and file below project_path;
\* the order in which glob yields them is that of the directory entries
glob(d, project_path) ==
    {p \in d.dirs \cup DOMAIN d.files :
        Len(p) > Len(project_path) /\ StartsWith(p, project_path)}

\* collections.Counter(l)
Counter(l) == [x \in Items(l) |-> Cardinality({i \in 1..Len(l) : l[i] = x})]

\* compare_list when the lists are compared as lists
compare_list_Ordered(list1, list2) == list1 = list2

\* compare_list(list1, list2)
compare_list(list1, list2) == Counter(list1) = Counter(list2)

\* no parent: the node is at the top of the tree view
TopLevel == << >>

\* a node of the tree view: the rebuild that inserted it and the path it shows
Node(gen, abspath, node_parent) == [id |-> <<gen, abspath>>, parent |-> node_parent]

\* ProjectList.__init__ on an empty tree view.  nodes are the items that show
\* a path, unopened the items with the empty child insert_node gives a
\* directory, gen the number of rebuilds.
NoTree ==
    [nodes |-> {}, unopened |-> {}, treedata |-> {}, current_path_list |-> << >>, gen |-> 0]

\* ProjectList.insert_node(parent, text, abspath)
insert_node(g, d, node_parent, abspath) ==
    LET node == Node(g.gen, abspath, node_parent)
    IN IF abspath \in d.dirs
       THEN [g EXCEPT !.nodes = @ \cup {node},
                      !.treedata = @ \cup {node.id},
                      !.unopened = @ \cup {node.id}]
       ELSE [g EXCEPT !.nodes = @ \cup {node}]

\* ProjectList.populate(project_path), paths what glob yields
populate(g, d, project_path, paths) ==
    IF ~compare_list(paths, g.current_path_list)
    THEN insert_node([g EXCEPT !.nodes = {}, !.unopened = {},
                               !.current_path_list = paths, !.gen = @ + 1],
                     d, TopLevel, project_path)
    ELSE g

RECURSIVE insert_nodes(_, _, _, _)
\* the loop of open_node over the entries ps of the directory
insert_nodes(g, d, node_parent, ps) ==
    IF ps = {} THEN g
    ELSE LET p == CHOOSE q \in ps : TRUE
         IN insert_nodes(insert_node(g, d, node_parent, p), d, node_parent, ps \ {p})

\* ProjectList.open_node with the focus on node: the tree after the handler
\* and the exception raised (Path.iterdir of a directory that is gone)
open_node(g, d, node) ==
    IF node.id \notin g.treedata THEN [gui |-> g, exc |-> "none"]
    ELSE LET g1 == [g EXCEPT !.treedata = @ \ {node.id}, !.unopened = @ \ {node.id}]
             abspath == node.id[2]
         IN IF abspath \notin d.dirs
            THEN [gui |-> g1, exc |-> "FileNotFoundError"]
            ELSE [gui |-> insert_nodes(g1, d, node.id,
                                       {p \in glob(d, abspath) : Len(p) = Len(abspath) + 1}),
                  exc |-> "none"]

TreeInit ==
    /\ asm_args = [engine_cmd |-> None]
    /\ asm_ret = None
    /\ task = NoTask
    /\ task_info = NoTask
    /\ disk = [dirs |-> {ProjectDir}, files |-> EmptyDict]
    /\ ret = NoCall
    /\ dependent_tasks = << >>
    /\ artifacts = NoArtifacts
    /\ tasks = << >>
    /\ gui = NoTree
    /\ status = EmptyDict
    /\ calls = << >>

\* update_project_dir_tree: navigation.populate(directory)
Populate ==
    /\ \E paths \in Listings(glob(disk, ProjectDir)) :
          gui' = populate(gui, disk, ProjectDir, paths)
    /\ ret' = [op |-> "populate", exc |-> "none", remote |-> FALSE]
    /\ UNCHANGED <<task, task_info, disk, status, calls, asm_vars, env_vars>>

\* <<TreeviewOpen>> on an item of the tree view
OpenNode ==
    /\ \E node \in gui.nodes :
          LET r == open_node(gui, disk, node)
          IN /\ gui' = r.gui
             /\ ret' = [op |-> "open_node", exc |-> r.exc, remote |-> FALSE]
    /\ UNCHANGED <<task, task_info, disk, status, calls, asm_vars, env_vars>>

\* a file or a directory appears under the project directory, or goes
TreeChanges ==
    /\ gui.gen < MaxRebuilds
    /\ \/ \E p \in TreeDirs \ disk.dirs : disk' = create_directory(disk, p)
       \/ \E p \in TreeFiles \ DOMAIN disk.files :
             /\ parent(p) \in disk.dirs
             /\ disk' = write_file(disk, p, << >>)
       \/ \E p \in TreeDirs \cap disk.dirs :
             /\ glob(disk, p) = {}
             /\ disk' = [disk EXCEPT !.dirs = @ \ {p}]
       \/ \E p \in DOMAIN disk.files :
             disk' = [disk EXCEPT !.files = [q \in DOMAIN @ \ {p} |-> @[q]]]
    /\ ret' = [op |-> "tree_changes", exc |-> "none", remote |-> FALSE]
    /\ UNCHANGED <<task, task_info, gui, status, calls, asm_vars, env_vars>>

TreeNext ==
    \/ Populate
    \/ OpenNode
    \/ TreeChanges

SpecTree == TreeInit /\ [][TreeNext]_vars

\* the paths under the project are those recorded, whatever their order
PathsAsRecorded == Items(gui.current_path_list) = glob(disk, ProjectDir)

\* C38: populate rebuilds the tree view only when the paths under the
\* project, taken without their order, differ from the recorded ones: then
\* the tree view is the closed project node alone and the paths are
\* recorded; otherwise the tree view and the recorded list stay as they are.
C38_PopulateRebuildsOnChange ==
    [][ret'.op = "populate" =>
        IF PathsAsRecorded
        THEN gui' = gui
        ELSE /\ gui'.nodes = {Node(gui.gen + 1, ProjectDir, TopLevel)}
             /\ gui'.unopened = {<<gui.gen + 1, ProjectDir>>}
             /\ Items(gui'.current_path_list) = glob(disk, ProjectDir)
             /\ Len(gui'.current_path_list) = Cardinality(glob(disk, ProjectDir))]_vars

\* populate found the recorded paths in another order and left the opened
\* tree as it was
C38_Witness ==
    /\ ret.op = "populate"
    /\ Len(gui.current_path_list) > 1
    /\ PathsAsRecorded
    /\ gui.unopened = {}
    /\ Cardinality(gui.nodes) > 1

\* populate rebuilt an opened tree
C38_WitnessRebuilt ==
    /\ ret.op = "populate"
    /\ gui.gen = 2
    /\ gui.nodes = {Node(2, ProjectDir, TopLevel)}
    /\ gui.treedata = {<<1, ProjectDir \o <<"nwchem">> >>, <<2, ProjectDir>>}

====
